---------------------------- MODULE Spec2Model ----------------------------
(***************************************************************************)
(* Quaturn: the scene tree, its traversals, the NodeManager API and the    *)
(* frame loop of Engine::begin / Engine::render_loop.                      *)
(*                                                                         *)
(* A scene is a forest of nodes.  A node is identified by the order in     *)
(* which it was created (its id); the manager that owns it is named by the *)
(* id of the owning node, 0 being the scene of the game context.           *)
(***************************************************************************)
EXTENDS Integers, Sequences, FiniteSets, TLC

VARIABLES
    nodes,               \* id -> node: the whole tree (Scene.nodes, recursively)
    active_camera_path,  \* GameContext.active_camera_path: Vec<String>
    shaders,             \* Scene.shaders: the keys of the map
    active_shader,       \* Scene.active_shader ("" when empty)
    pc,                  \* the next step of Engine::begin / Engine::render_loop
    frame,               \* number of frames started by render_loop
    should_close,        \* window.should_close()
    trace,               \* the steps executed so far, as <<frame, step>>
    ready_calls,         \* id -> number of invocations of the ready callback
    update_calls,        \* id -> number of invocations of the update callback
    visited,             \* the visit orders of the traversals of the last pass
    items,               \* the result of the last collect_items over the roots
    camera,              \* the result of the last traverse_camera_path
    draws,               \* the draw calls of the last main pass
    shadows,             \* the lights whose shadow map the last shadow pass rendered
    warnings,            \* the warnings written to stderr so far
    node_transform,      \* a NodeTransform operated on through its methods
    light,               \* a DirectionalLight operated on through its methods
    pointers,            \* the raw pointers a pass collected and its progress
    loader,              \* Model::new_gltf: the loading thread, its spinner thread and the flag
    shader,              \* a Shader: its program, its cache of uniform locations and its uniforms
    cube,                \* the point-shadow passes: slots used and pointLightLength
    adds,               \* the cameras and the shaders added so far, in the order of the calls
    layers,              \* the directional-shadow passes: the layers of the depth map array given to the lights
    callbacks,           \* a scripted node: its callback slots and the calls of ready / behavior in progress
    created,             \* number of nodes created so far
    active_camera,       \* NodeManager.active_camera of the scene (0 when empty)
    inserted,            \* the nodes of the scene in the order of their insertion
    result               \* the last call of an API and its result

vars == <<nodes, active_camera_path, shaders, active_shader, pc, frame,
          should_close, trace, ready_calls, update_calls, visited, items,
          camera, draws, shadows, warnings,
          node_transform, light, pointers, loader, shader, cube, adds, layers, callbacks,
          created, active_camera, inserted, result>>

\* the variables only the NodeManager API changes
api == <<created, active_camera, inserted, result>>

\* what the passes of a frame write beside the frame itself
output == <<shadows, warnings>>

\* the values operated on outside a scene
objects == <<node_transform, light>>

\* what the passes and the resources of the renderer keep beside the scene
aux == <<pointers, loader, shader, cube, adds, layers, callbacks>>

\* aux without the pointers of the passes
beside_pointers == <<loader, shader, cube, adds, layers, callbacks>>

\* aux without the loading of a model
beside_loader == <<pointers, shader, cube, adds, layers, callbacks>>

\* aux without the shader
beside_shader == <<pointers, loader, cube, adds, layers, callbacks>>

\* aux without the point-shadow passes
beside_cube == <<pointers, loader, shader, adds, layers, callbacks>>

\* aux without the record of the cameras and shaders added
beside_adds == <<pointers, loader, shader, cube, layers, callbacks>>

\* aux without the directional-shadow passes
beside_layers == <<pointers, loader, shader, cube, adds, callbacks>>

\* aux without the callbacks of a scripted node
beside_callbacks == <<pointers, loader, shader, cube, adds, layers>>

-----------------------------------------------------------------------------
(* Bounds *)

MaxNodes == 3

MaxFrames == 2

\* the number of times the ready pass is run on one scene
MaxReadyPasses == 2

\* the length of the longest camera path resolved
MaxPathLen == 3

\* the number of calls of NodeManager::add on one manager
MaxAdds == 2

\* the largest coordinate and the largest scale factor of a transform
MaxCoord == 2

-----------------------------------------------------------------------------
(* Nodes and transforms *)

Kinds == {"Camera3D", "Model", "PointLight", "DirectionalLight", "Empty"}

\* the kinds that store a ready callback and a behavior callback
\* (define_ready / define_behavior)
Scripted == {"Camera3D", "Model"}

Names == 1..MaxNodes

\* NodeTransform::default(): position 0, scale 1
default == [position |-> 0, scale |-> 1]

\* parent_transform + child_transform, component-wise
Add(parent, child) ==
    [position |-> parent.position + child.position,
     scale |-> parent.scale * child.scale]

\* the local transform the i-th created node is given: the positions are
\* distinct powers of two, so a sum of positions names its summands
LocalTransform(i) == [position |-> 2 ^ (i - 1), scale |-> 2]

Node(name, kind, parent, transform, callback) ==
    [name |-> name, kind |-> kind, parent |-> parent,
     transform |-> transform, callback |-> callback]

Ids == DOMAIN nodes

AllIds == [i \in 1..MaxNodes |-> i]

\* manager.nodes.values(): the nodes owned by the manager of node `manager`
\* (0: the scene). The map iterates in an order that is unspecified but the
\* same as long as the map is not modified: the model iterates by node id.
values(manager) ==
    SelectSeq(AllIds, LAMBDA i : i \in Ids /\ nodes[i].parent = manager)

\* HashMap::get on the nodes of `manager`: the node stored under `name`, or 0
HashMap_get(manager, name) ==
    IF \E i \in Ids : nodes[i].parent = manager /\ nodes[i].name = name
    THEN CHOOSE i \in Ids : nodes[i].parent = manager /\ nodes[i].name = name
    ELSE 0

\* Scene::get_dyn_mut(name): the node owned by `manager` under `name`, or 0
get_dyn_mut(manager, name) == HashMap_get(manager, name)


-----------------------------------------------------------------------------
(* NodeTransform and its matrix.  The model is planar: vectors have two
   components, a rotation is a number of quarter turns about the axis normal
   to the plane, and a matrix is a 3x3 homogeneous matrix of integers. *)

\* glm::identity()
identity == <<<<1, 0, 0>>, <<0, 1, 0>>, <<0, 0, 1>>>>

\* the product of two matrices
Mul(A, B) ==
    [i \in 1..3 |-> [j \in 1..3 |->
        A[i][1] * B[1][j] + A[i][2] * B[2][j] + A[i][3] * B[3][j]]]

\* glm::translation(&position)
translation(position) ==
    <<<<1, 0, position[1]>>, <<0, 1, position[2]>>, <<0, 0, 1>>>>

\* the cosine and the sine of a number of quarter turns
cos(q) == <<1, 0, -1, 0>>[(q % 4) + 1]

sin(q) == <<0, 1, 0, -1>>[(q % 4) + 1]

\* glm::quat_to_mat4(&rotation)
quat_to_mat4(rotation) ==
    <<<<cos(rotation), -sin(rotation), 0>>,
      <<sin(rotation), cos(rotation), 0>>,
      <<0, 0, 1>>>>

\* glm::scaling(&scale)
scaling(factors) ==
    <<<<factors[1], 0, 0>>, <<0, factors[2], 0>>, <<0, 0, 1>>>>

\* glm::quat_angle_axis(radians(degrees), axis) for the axis of the plane
quat_angle_axis(degrees) == (degrees \div 90) % 4

\* NodeTransform::update_matrix
update_matrix(t) ==
    [t EXCEPT !.matrix = Mul(Mul(translation(t.position), quat_to_mat4(t.rotation)),
                             scaling(t.scale))]

\* NodeTransform::new(position, rotation, scale)
NodeTransform_new(position, rotation, factors) ==
    update_matrix([position |-> position, rotation |-> rotation,
                   scale |-> factors, matrix |-> identity])

\* impl Default for NodeTransform
NodeTransform_default ==
    update_matrix([position |-> <<0, 0>>, rotation |-> 0, scale |-> <<1, 1>>,
                   matrix |-> identity])

\* NodeTransform::set_position
set_position(t, position) == update_matrix([t EXCEPT !.position = position])

\* NodeTransform::set_rotation
set_rotation(t, rotation) == update_matrix([t EXCEPT !.rotation = rotation])

\* NodeTransform::set_euler_xyz
set_euler_xyz(t, degrees) ==
    update_matrix([t EXCEPT !.rotation = quat_angle_axis(degrees)])

\* NodeTransform::set_scale
set_scale(t, factors) == update_matrix([t EXCEPT !.scale = factors])

\* NodeTransform::scale
scale(t, factors) ==
    update_matrix([t EXCEPT !.scale = <<t.scale[1] * factors[1],
                                        t.scale[2] * factors[2]>>])

\* NodeTransform::translate leaving the matrix as it is
translate_stale(t, offset) ==
    [t EXCEPT !.position = <<t.position[1] + offset[1],
                             t.position[2] + offset[2]>>]

\* NodeTransform::translate
translate(t, offset) ==
    update_matrix([t EXCEPT !.position = <<t.position[1] + offset[1],
                                           t.position[2] + offset[2]>>])

\* NodeTransform::rotate
rotate(t, degrees) ==
    update_matrix([t EXCEPT !.rotation = (quat_angle_axis(degrees) + t.rotation) % 4])

\* NodeTransform::rotate_euler_xyz
rotate_euler_xyz(t, degrees) ==
    update_matrix([t EXCEPT !.rotation = (quat_angle_axis(degrees) + t.rotation) % 4])

\* a DirectionalLight that has not been constructed
NoLight == [constructed |-> FALSE]

\* no pass holds a raw pointer
NoPointers == [pass |-> "", ptrs |-> <<>>, next |-> 1, created |-> 0]

\* Model::new_gltf has not been called
NoLoad == [main |-> "", spinner |-> "", model_loaded |-> FALSE, i |-> 0,
           file |-> [valid |-> TRUE, resources |-> 1], created |-> 0]

\* a Shader that has not been compiled
NoShader == [compiled |-> FALSE]

\* before the first point-shadow pass: pointLightLength of a linked program is 0
NoCube == [frame |-> 0, lights |-> <<>>, rendered |-> <<>>, bound |-> <<>>,
           pointLightLength |-> [s \in {"default"} |-> 0]]

\* no camera and no shader added yet
NoneAdded == [cameras |-> <<>>, shaders |-> <<>>]

\* before the first directional-shadow pass
NoLayers == [frame |-> 0, ran |-> FALSE, ranges |-> <<>>]

\* a node with no callback registered and no call in progress
NoCallbacks == [slot |-> [k \in {"ready", "behavior"} |-> "none"],
                stack |-> <<>>, last |-> [op |-> "none"]]

\* the passes and the resources of the renderer before anything ran
Idle ==
    /\ pointers = NoPointers
    /\ loader = NoLoad
    /\ shader = NoShader
    /\ cube = NoCube
    /\ adds = NoneAdded
    /\ layers = NoLayers
    /\ callbacks = NoCallbacks

-----------------------------------------------------------------------------
(* Lifecycle callbacks: NodeManager::ready / NodeManager::behavior *)

\* the accumulator of a callback pass: the nodes visited so far, in order,
\* and the number of times each node's callback has run
Pass(calls) == [visits |-> <<>>, calls |-> calls]

\* Node::as_ready: Some for a Camera3D and a Model, None by default
as_ready(node) == nodes[node].kind \in {"Camera3D", "Model"}

\* Node::as_behavior: Some for a Camera3D, None by default (Model does not
\* override it)
as_behavior(node) == nodes[node].kind \in {"Camera3D"}

\* impl Ready for Model / Camera3D: take the callback, call it, put it back
Ready_ready(node, acc) ==
    IF nodes[node].callback
    THEN [acc EXCEPT !.calls[node] = @ + 1]
    ELSE acc

\* impl Behavior for Model / Camera3D: take the callback, call it, put it back
Behavior_behavior(node, acc) ==
    IF nodes[node].callback
    THEN [acc EXCEPT !.calls[node] = @ + 1]
    ELSE acc

RECURSIVE ready(_, _, _)
\* NodeManager::ready: the loop over self.nodes.values_mut(), from the i-th
ready(vals, i, acc) ==
    IF i > Len(vals)
    THEN acc
    ELSE LET node == vals[i]
             seen == [acc EXCEPT !.visits = Append(@, node)]
             called == IF as_ready(node) THEN Ready_ready(node, seen) ELSE seen
             children == ready(values(node), 1, called)
         IN  ready(vals, i + 1, children)

RECURSIVE behavior(_, _, _)
\* NodeManager::behavior with the recursion nested in the `if let`: the
\* children of a node without a behavior are not visited
behavior_nested(vals, i, acc) ==
    IF i > Len(vals)
    THEN acc
    ELSE LET node == vals[i]
             seen == [acc EXCEPT !.visits = Append(@, node)]
             children == IF as_behavior(node)
                         THEN behavior(values(node), 1, Behavior_behavior(node, seen))
                         ELSE seen
         IN  behavior(vals, i + 1, children)

\* NodeManager::behavior: the loop over self.nodes.values_mut(), from the i-th
behavior(vals, i, acc) ==
    IF i > Len(vals)
    THEN acc
    ELSE LET node == vals[i]
             seen == [acc EXCEPT !.visits = Append(@, node)]
             called == IF as_behavior(node) THEN Behavior_behavior(node, seen) ELSE seen
             children == behavior(values(node), 1, called)
         IN  behavior(vals, i + 1, children)

\* GameContext::emit(event): dispatch the event to every node of the scene
emit(event, calls) ==
    IF event = "Ready"
    THEN ready(values(0), 1, Pass(calls))
    ELSE behavior(values(0), 1, Pass(calls))

-----------------------------------------------------------------------------
(* Render traversals of lib.rs *)

\* the accumulator of a render traversal: the nodes visited so far, in
\* order, and the <<node, world transform>> pairs produced so far
Walk == [visits |-> <<>>, items |-> <<>>]

RECURSIVE collect_items(_, _, _, _)
RECURSIVE collect_children(_, _, _, _, _)
\* collect_items handing parent_transform, not world_transform, down to the
\* children
collect_items_flat(N, node, acc, parent_transform) ==
    LET world_transform == Add(parent_transform, nodes[node].transform)
        seen == [acc EXCEPT !.visits = Append(@, node)]
        pushed == IF nodes[node].kind = N
                  THEN [seen EXCEPT !.items = Append(@, <<node, world_transform>>)]
                  ELSE seen
    IN  collect_children(N, values(node), 1, pushed, parent_transform)

\* collect_items::<N, _>(node, items, parent_transform)
collect_items(N, node, acc, parent_transform) ==
    LET world_transform == Add(parent_transform, nodes[node].transform)
        seen == [acc EXCEPT !.visits = Append(@, node)]
        pushed == IF nodes[node].kind = N
                  THEN [seen EXCEPT !.items = Append(@, <<node, world_transform>>)]
                  ELSE seen
    IN  collect_children(N, values(node), 1, pushed, world_transform)

\* the loop of collect_items over the children of a node, from the i-th
collect_children(N, vals, i, acc, world_transform) ==
    IF i > Len(vals)
    THEN acc
    ELSE collect_children(N, vals, i + 1,
                          collect_items(N, vals[i], acc, world_transform),
                          world_transform)

RECURSIVE collect_roots(_, _, _, _)
\* the loop of a pass over context.scene.get_all_mut().values_mut()
collect_roots(N, vals, i, acc) ==
    IF i > Len(vals)
    THEN acc
    ELSE collect_roots(N, vals, i + 1, collect_items(N, vals[i], acc, default))

RECURSIVE draw_node(_, _, _)
RECURSIVE draw_children(_, _, _, _)
\* draw_node drawing the children of a node before the node
draw_node_children_first(node, acc, parent_transform) ==
    LET world_transform == Add(parent_transform, nodes[node].transform)
        below == draw_children(values(node), 1, acc, world_transform)
        seen == [below EXCEPT !.visits = Append(@, node)]
    IN  IF nodes[node].kind = "Model"
        THEN [seen EXCEPT !.items = Append(@, <<node, world_transform>>)]
        ELSE seen

\* draw_node going down to the children of models only
draw_node_under_models(node, acc, parent_transform) ==
    LET world_transform == Add(parent_transform, nodes[node].transform)
        seen == [acc EXCEPT !.visits = Append(@, node)]
    IN  IF nodes[node].kind = "Model"
        THEN draw_children(values(node), 1,
                           [seen EXCEPT !.items = Append(@, <<node, world_transform>>)],
                           world_transform)
        ELSE seen

\* draw_node(node, parent_transform, shader_ptr, camera_ptr)
draw_node(node, acc, parent_transform) ==
    LET world_transform == Add(parent_transform, nodes[node].transform)
        seen == [acc EXCEPT !.visits = Append(@, node)]
        drawn == IF nodes[node].kind = "Model"
                 THEN [seen EXCEPT !.items = Append(@, <<node, world_transform>>)]
                 ELSE seen
    IN  draw_children(values(node), 1, drawn, world_transform)

\* the loop of draw_node over the children of a node, from the i-th
draw_children(vals, i, acc, world_transform) ==
    IF i > Len(vals)
    THEN acc
    ELSE draw_children(vals, i + 1, draw_node(vals[i], acc, world_transform),
                       world_transform)

RECURSIVE draw_roots(_, _, _)
\* render_main_pass: the loop over self.context.scene.get_all_mut()
draw_roots(vals, i, acc) ==
    IF i > Len(vals)
    THEN acc
    ELSE draw_roots(vals, i + 1, draw_node(vals[i], acc, default))

RECURSIVE draw_node_shadow(_, _, _)
RECURSIVE draw_shadow_children(_, _, _, _)
\* DirectionalLight::draw_node_shadow(shader, node, parent_transform)
draw_node_shadow(node, acc, parent_transform) ==
    LET world_transfrom == Add(parent_transform, nodes[node].transform)
        seen == [acc EXCEPT !.visits = Append(@, node)]
        drawn == IF nodes[node].kind = "Model"
                 THEN [seen EXCEPT !.items = Append(@, <<node, world_transfrom>>)]
                 ELSE seen
    IN  draw_shadow_children(values(node), 1, drawn, world_transfrom)

\* the loop of draw_node_shadow over the children of a node, from the i-th
draw_shadow_children(vals, i, acc, world_transfrom) ==
    IF i > Len(vals)
    THEN acc
    ELSE draw_shadow_children(vals, i + 1,
                              draw_node_shadow(vals[i], acc, world_transfrom),
                              world_transfrom)

RECURSIVE render_shadow_map(_, _, _)
\* DirectionalLight::render_shadow_map: the loop over root_nodes
render_shadow_map(root_nodes, i, acc) ==
    IF i > Len(root_nodes)
    THEN acc
    ELSE render_shadow_map(root_nodes, i + 1,
                           draw_node_shadow(root_nodes[i], acc, default))

-----------------------------------------------------------------------------
(* Camera path resolution *)

None == [found |-> FALSE, node |-> 0, transform |-> default]

Some(node, transform) == [found |-> TRUE, node |-> node, transform |-> transform]

\* the downcast succeeding whatever the node is
downcast_any(current_node, current_transform) ==
    Some(current_node, current_transform)

\* current_node.as_any_mut().downcast_mut::<Camera3D>().map(...)
downcast_camera(current_node, current_transform) ==
    IF nodes[current_node].kind = "Camera3D"
    THEN Some(current_node, current_transform)
    ELSE None

RECURSIVE traverse_segments(_, _, _, _)
\* the loop accumulating the transform of the camera as well
traverse_segments_inclusive(camera_path, i, current_node, current_transform) ==
    IF i > Len(camera_path)
    THEN downcast_camera(current_node,
                         Add(current_transform, nodes[current_node].transform))
    ELSE LET transform == Add(current_transform, nodes[current_node].transform)
             child == get_dyn_mut(current_node, camera_path[i])
         IN  IF child = 0
             THEN None
             ELSE traverse_segments(camera_path, i + 1, child, transform)

\* traverse_camera_path: the loop over camera_path[1..], from the i-th name
traverse_segments(camera_path, i, current_node, current_transform) ==
    IF i > Len(camera_path)
    THEN downcast_camera(current_node, current_transform)
    ELSE LET transform == Add(current_transform, nodes[current_node].transform)
             child == get_dyn_mut(current_node, camera_path[i])
         IN  IF child = 0
             THEN None
             ELSE traverse_segments(camera_path, i + 1, child, transform)

\* traverse_camera_path(context, camera_path)
traverse_camera_path(camera_path) ==
    IF camera_path = <<>>
    THEN None
    ELSE LET first == get_dyn_mut(0, camera_path[1])
         IN  IF first = 0
             THEN None
             ELSE traverse_segments(camera_path, 2, first, default)

-----------------------------------------------------------------------------
(* Shaders *)

\* NodeManager::add_shader(name, shader): the shader map and the active shader
add_shader(name) ==
    [shaders |-> shaders \cup {name},
     active_shader |-> IF active_shader = "" THEN name ELSE active_shader]

-----------------------------------------------------------------------------
(* The NodeManager API: add, get, get_mut *)

NoCall == [op |-> "none"]

\* the state of the manager a call may change
Manager == [nodes |-> nodes, active_camera |-> active_camera,
            active_shader |-> active_shader]

RECURSIVE Dropped(_)
\* the nodes dropped with node n: n and the nodes of its children
Dropped(n) ==
    {n} \cup UNION {Dropped(c) : c \in {i \in Ids : nodes[i].parent = n}}

\* HashMap::insert on the nodes of the scene: the node stored under the name
\* of `node`, if any, is replaced (and dropped)
HashMap_insert(id, node) ==
    LET old == HashMap_get(0, node.name)
        kept == IF old = 0 THEN Ids ELSE Ids \ Dropped(old)
    IN  [i \in kept \cup {id} |-> IF i = id THEN node ELSE nodes[i]]

\* NodeManager::add(name, node): the nodes and the active camera after it
add(id, node) ==
    [nodes |-> HashMap_insert(id, node),
     active_camera |-> IF node.kind = "Camera3D" /\ active_camera = 0
                       THEN node.name
                       ELSE active_camera]

\* NodeManager::get returning the node whatever its type
get_any(name, T) == HashMap_get(0, name)

\* NodeManager::get::<T>(name): the node, or 0 for None
get(name, T) ==
    LET node == HashMap_get(0, name)
    IN  IF node # 0 /\ nodes[node].kind = T THEN node ELSE 0

\* NodeManager::get_mut::<T>(name): the node, or 0 for None
get_mut(name, T) ==
    LET node == HashMap_get(0, name)
    IN  IF node # 0 /\ nodes[node].kind = T THEN node ELSE 0

\* NodeManager::get_all(): the nodes as an iteration over the map meets them
get_all == values(0)

\* NodeManager::get_iter::<T>(): the nodes of type T as values_mut() meets them
get_iter(T) == SelectSeq(values(0), LAMBDA i : nodes[i].kind = T)

\* NodeManager::get_vec::<T>(): the same, collected
get_vec(T) == SelectSeq(values(0), LAMBDA i : nodes[i].kind = T)

\* the places of the map's iteration order that HashMap::insert may give to
\* the key `name`: the place it has, or, for a new key, any free one (the
\* order follows the hashes of the keys, not the order of insertion)
Buckets(name) ==
    IF HashMap_get(0, name) # 0
    THEN {HashMap_get(0, name)}
    ELSE (1..MaxNodes) \ Ids

\* the kinds of the nodes added through the API
ApiKinds == {"Camera3D", "Empty"}

\* NodeManager::add on the scene with a newly constructed node of one of the
\* kinds KS under one of the names NS
AddedAs(NS, KS) ==
    /\ created < MaxAdds
    /\ \E name \in NS, kind \in KS : \E id \in Buckets(name) :
          LET node == Node(name, kind, 0, LocalTransform(id), kind \in Scripted)
              after == add(id, node)
          IN  /\ nodes' = after.nodes
              /\ active_camera' = after.active_camera
              /\ created' = created + 1
              /\ inserted' = IF \E k \in 1..Len(inserted) : inserted[k] = id
                             THEN inserted
                             ELSE Append(inserted, id)
              /\ ready_calls' = [i \in DOMAIN after.nodes |->
                                   IF i = id THEN 0 ELSE ready_calls[i]]
              /\ update_calls' = [i \in DOMAIN after.nodes |->
                                    IF i = id THEN 0 ELSE update_calls[i]]
              /\ result' = [op |-> "add", name |-> name, variant |-> kind,
                            outcome |-> "Ok", value |-> id, before |-> Manager]

\* NodeManager::add on the scene with a newly constructed node of one of the
\* kinds KS
Added(KS) == AddedAs(Names, KS)

\* a call of NodeManager::add on the scene
NodeManager_add ==
    /\ Added(ApiKinds)
    /\ UNCHANGED <<active_camera_path, shaders, active_shader, pc, frame,
                   should_close, trace, visited, items, camera, draws,
                   shadows, warnings,
                   node_transform, light, aux>>

\* a call of NodeManager::get on the scene
NodeManager_get ==
    /\ \E name \in Names, T \in ApiKinds :
          result' = [op |-> "get", name |-> name, variant |-> T,
                     outcome |-> "Ok", value |-> get(name, T), before |-> Manager]
    /\ UNCHANGED <<nodes, active_camera_path, shaders, active_shader, pc,
                   frame, should_close, trace, ready_calls, update_calls,
                   visited, items, camera, draws, shadows, warnings,
                   node_transform, light, aux, created,
                   active_camera, inserted>>

\* a call of NodeManager::get_mut on the scene
NodeManager_get_mut ==
    /\ \E name \in Names, T \in ApiKinds :
          result' = [op |-> "get_mut", name |-> name, variant |-> T,
                     outcome |-> "Ok", value |-> get_mut(name, T), before |-> Manager]
    /\ UNCHANGED <<nodes, active_camera_path, shaders, active_shader, pc,
                   frame, should_close, trace, ready_calls, update_calls,
                   visited, items, camera, draws, shadows, warnings,
                   node_transform, light, aux, created,
                   active_camera, inserted>>

\* an iteration over get_all(), get_iter::<T>() or get_vec::<T>()
NodeManager_iterate ==
    /\ \E op \in {"get_all", "get_iter", "get_vec"} :
       \E T \in (IF op = "get_all" THEN {"Node"} ELSE ApiKinds) :
          result' = [op |-> op, name |-> 0, variant |-> T, outcome |-> "Ok",
                     value |-> CASE op = "get_all" -> get_all
                                 [] op = "get_iter" -> get_iter(T)
                                 [] op = "get_vec" -> get_vec(T),
                     before |-> Manager]
    /\ UNCHANGED <<nodes, active_camera_path, shaders, active_shader, pc,
                   frame, should_close, trace, ready_calls, update_calls,
                   visited, items, camera, draws, shadows, warnings,
                   node_transform, light, aux, created,
                   active_camera, inserted>>

-----------------------------------------------------------------------------
(* The scenes an engine is started on *)

ParentMaps(n) == {p \in [1..n -> 0..n] : \A i \in 1..n : p[i] < i}

\* the trees of n nodes of the kinds KS, each node under the scene or under
\* a node of a smaller id; the nodes of the kinds CS are given callbacks.
\* Every tree with every iteration order of its maps is one of these up to
\* the numbering of its nodes: number them as a pre-order walk meets them.
Trees(n, KS, CS) ==
    {[i \in 1..n |-> Node(i, k[i], p[i], LocalTransform(i), k[i] \in CS)] :
        k \in [1..n -> KS], p \in ParentMaps(n)}

RECURSIVE path_to(_, _)
\* the names from the root of tree t down to its node n
path_to(t, n) ==
    IF t[n].parent = 0
    THEN <<t[n].name>>
    ELSE Append(path_to(t, t[n].parent), t[n].name)

\* the camera paths a scene is started with: none, or the path of a node
CameraPaths(t) == {<<>>} \cup {path_to(t, n) : n \in DOMAIN t}

\* the kinds of the nodes of a rendered scene: to every pass of a frame an
\* Empty is what a light is to the passes that do not collect it
SceneKinds == Kinds \ {"Empty"}

\* a loaded scene of nodes of the kinds KS whose active shader is one of
\* SS ("": the scene has no shader), before Engine::begin
Loaded(KS, SS) ==
    /\ \E n \in 0..MaxNodes : nodes \in Trees(n, KS, Scripted)
    /\ active_camera_path \in CameraPaths(nodes)
    /\ \E name \in SS :
          /\ active_shader = name
          /\ shaders = IF name = "" THEN {} ELSE {name}
    /\ pc = "begin"
    /\ frame = 0
    /\ should_close = FALSE
    /\ trace = <<>>
    /\ ready_calls = [i \in DOMAIN nodes |-> 0]
    /\ update_calls = [i \in DOMAIN nodes |-> 0]
    /\ visited = {}
    /\ items = [variant |-> "", pairs |-> <<>>]
    /\ camera = None
    /\ draws = <<>>
    /\ shadows = <<>>
    /\ warnings = <<>>
    /\ node_transform = NodeTransform_default
    /\ light = NoLight
    /\ Idle
    /\ created = Cardinality(DOMAIN nodes)
    /\ inserted = [i \in 1..Cardinality(DOMAIN nodes) |-> i]
    /\ active_camera = 0
    /\ result = NoCall

\* the scenes the frame loop is run on: they have a shader
Init == Loaded(SceneKinds, {"default"})

-----------------------------------------------------------------------------
(* Engine::begin and Engine::render_loop *)

Step(name) == <<frame, name>>

\* Engine::begin up to the call of render_loop: emit(Ready), the default
\* shader when the scene has none, update_ui
begin ==
    /\ pc = "begin"
    /\ LET pass == emit("Ready", ready_calls)
           added == IF active_shader = ""
                    THEN add_shader("default")
                    ELSE [shaders |-> shaders, active_shader |-> active_shader]
       IN  /\ ready_calls' = pass.calls
           /\ visited' = {pass.visits}
           /\ shaders' = added.shaders
           /\ active_shader' = added.active_shader
           /\ warnings' = IF active_shader = ""
                          THEN Append(warnings, "Warning: No shader found in the scene")
                          ELSE warnings
    /\ trace' = trace \o <<Step("Ready"), Step("update_ui")>>
    /\ pc' = "render_loop"
    /\ UNCHANGED api
    /\ UNCHANGED objects
    /\ UNCHANGED aux
    /\ UNCHANGED shadows
    /\ UNCHANGED <<nodes, active_camera_path, frame, should_close,
                   update_calls, items, camera, draws>>

\* render_loop: the loop condition holds, a frame starts
render_loop_enter ==
    /\ pc = "render_loop"
    /\ ~should_close
    /\ frame < MaxFrames
    /\ frame' = frame + 1
    /\ pc' = "clear"
    /\ UNCHANGED api
    /\ UNCHANGED objects
    /\ UNCHANGED aux
    /\ UNCHANGED output
    /\ UNCHANGED <<nodes, active_camera_path, shaders, active_shader,
                   should_close, trace, ready_calls, update_calls, visited,
                   items, camera, draws>>

\* render_loop: the window should close, Ok(()) is returned
render_loop_return ==
    /\ pc = "render_loop"
    /\ should_close
    /\ pc' = "returned"
    /\ UNCHANGED api
    /\ UNCHANGED objects
    /\ UNCHANGED aux
    /\ UNCHANGED output
    /\ UNCHANGED <<nodes, active_camera_path, shaders, active_shader, frame,
                   should_close, trace, ready_calls, update_calls, visited,
                   items, camera, draws>>

\* Renderer::clear()
clear ==
    /\ pc = "clear"
    /\ trace' = Append(trace, Step("clear"))
    /\ pc' = "shadow_depth_pass"
    /\ UNCHANGED api
    /\ UNCHANGED objects
    /\ UNCHANGED aux
    /\ UNCHANGED output
    /\ UNCHANGED <<nodes, active_camera_path, shaders, active_shader, frame,
                   should_close, ready_calls, update_calls, visited, items,
                   camera, draws>>

\* Engine::shadow_depth_pass
shadow_depth_pass ==
    /\ pc = "shadow_depth_pass"
    /\ LET lights == collect_roots("DirectionalLight", values(0), 1, Walk)
           resolved == traverse_camera_path(active_camera_path)
           shadow == render_shadow_map(values(0), 1, Walk)
       IN  /\ items' = [variant |-> "DirectionalLight", pairs |-> lights.items]
           /\ camera' = resolved
           /\ shadows' = IF resolved.found
                         THEN [k \in 1..Len(lights.items) |-> lights.items[k][1]]
                         ELSE <<>>
           /\ visited' = {lights.visits} \cup
                         (IF resolved.found /\ lights.items # <<>>
                          THEN {shadow.visits}
                          ELSE {})
    /\ trace' = Append(trace, Step("shadow_depth_pass"))
    /\ pc' = "cube_shadow_depth_pass"
    /\ UNCHANGED api
    /\ UNCHANGED objects
    /\ UNCHANGED aux
    /\ UNCHANGED warnings
    /\ UNCHANGED <<nodes, active_camera_path, shaders, active_shader, frame,
                   should_close, ready_calls, update_calls, draws>>

\* Engine::cube_shadow_depth_pass
cube_shadow_depth_pass ==
    /\ pc = "cube_shadow_depth_pass"
    /\ LET lights == collect_roots("PointLight", values(0), 1, Walk)
       IN  /\ items' = [variant |-> "PointLight", pairs |-> lights.items]
           /\ visited' = {lights.visits}
    /\ trace' = Append(trace, Step("cube_shadow_depth_pass"))
    /\ pc' = "render_main_pass"
    /\ UNCHANGED api
    /\ UNCHANGED objects
    /\ UNCHANGED aux
    /\ UNCHANGED output
    /\ UNCHANGED <<nodes, active_camera_path, shaders, active_shader, frame,
                   should_close, ready_calls, update_calls, camera, draws>>

\* the main pass drawing whether or not the camera resolves
render_main_pass_without_camera ==
    /\ pc = "render_main_pass"
    /\ LET resolved == traverse_camera_path(active_camera_path)
           drawn == draw_roots(values(0), 1, Walk)
       IN  /\ camera' = resolved
           /\ IF active_shader \in shaders
              THEN draws' = drawn.items /\ visited' = {drawn.visits}
              ELSE draws' = <<>> /\ visited' = {}
    /\ trace' = Append(trace, Step("render_main_pass"))
    /\ pc' = "render_ui_pass"
    /\ UNCHANGED api
    /\ UNCHANGED objects
    /\ UNCHANGED aux
    /\ UNCHANGED output
    /\ UNCHANGED <<nodes, active_camera_path, shaders, active_shader, frame,
                   should_close, ready_calls, update_calls, items>>

\* Engine::render_main_pass
render_main_pass ==
    /\ pc = "render_main_pass"
    /\ LET resolved == traverse_camera_path(active_camera_path)
           drawn == draw_roots(values(0), 1, Walk)
       IN  /\ camera' = resolved
           /\ IF resolved.found /\ active_shader \in shaders
              THEN draws' = drawn.items /\ visited' = {drawn.visits}
              ELSE draws' = <<>> /\ visited' = {}
    /\ trace' = Append(trace, Step("render_main_pass"))
    /\ pc' = "render_ui_pass"
    /\ UNCHANGED api
    /\ UNCHANGED objects
    /\ UNCHANGED aux
    /\ UNCHANGED output
    /\ UNCHANGED <<nodes, active_camera_path, shaders, active_shader, frame,
                   should_close, ready_calls, update_calls, items>>

\* Engine::render_ui_pass
render_ui_pass ==
    /\ pc = "render_ui_pass"
    /\ trace' = Append(trace, Step("render_ui_pass"))
    /\ pc' = "update_context"
    /\ UNCHANGED api
    /\ UNCHANGED objects
    /\ UNCHANGED aux
    /\ UNCHANGED output
    /\ UNCHANGED <<nodes, active_camera_path, shaders, active_shader, frame,
                   should_close, ready_calls, update_calls, visited, items,
                   camera, draws>>

\* update_context leaving the frame for the head of the loop as soon as the
\* window asks to close
update_context_break ==
    /\ pc = "update_context"
    /\ \E close \in (IF frame < MaxFrames THEN BOOLEAN ELSE {TRUE}) :
          /\ should_close' = (should_close \/ close)
          /\ pc' = IF close THEN "render_loop" ELSE "update_ui"
    /\ trace' = Append(trace, Step("update_context"))
    /\ UNCHANGED api
    /\ UNCHANGED objects
    /\ UNCHANGED aux
    /\ UNCHANGED output
    /\ UNCHANGED <<nodes, active_camera_path, shaders, active_shader, frame,
                   ready_calls, update_calls, visited, items, camera, draws>>

\* Engine::update_context: the frame timer and the input are updated; the
\* window events polled here may ask the window to close
update_context ==
    /\ pc = "update_context"
    /\ \E close \in (IF frame < MaxFrames THEN BOOLEAN ELSE {TRUE}) :
          should_close' = (should_close \/ close)
    /\ trace' = Append(trace, Step("update_context"))
    /\ pc' = "update_ui"
    /\ UNCHANGED api
    /\ UNCHANGED objects
    /\ UNCHANGED aux
    /\ UNCHANGED output
    /\ UNCHANGED <<nodes, active_camera_path, shaders, active_shader, frame,
                   ready_calls, update_calls, visited, items, camera, draws>>

\* update_ui followed at once by swap_buffers
update_ui_then_swap ==
    /\ pc = "update_ui"
    /\ trace' = Append(trace, Step("update_ui"))
    /\ pc' = "swap_buffers"
    /\ UNCHANGED api
    /\ UNCHANGED objects
    /\ UNCHANGED aux
    /\ UNCHANGED output
    /\ UNCHANGED <<nodes, active_camera_path, shaders, active_shader, frame,
                   should_close, ready_calls, update_calls, visited, items,
                   camera, draws>>

\* Engine::update_ui, called by render_loop
update_ui ==
    /\ pc = "update_ui"
    /\ trace' = Append(trace, Step("update_ui"))
    /\ pc' = "emit"
    /\ UNCHANGED api
    /\ UNCHANGED objects
    /\ UNCHANGED aux
    /\ UNCHANGED output
    /\ UNCHANGED <<nodes, active_camera_path, shaders, active_shader, frame,
                   should_close, ready_calls, update_calls, visited, items,
                   camera, draws>>

\* render_loop emitting Event::Ready in every frame
emit_ready_every_frame ==
    /\ pc = "emit"
    /\ LET pass == emit("Ready", ready_calls)
       IN  /\ ready_calls' = pass.calls
           /\ visited' = {pass.visits}
    /\ trace' = Append(trace, Step("Ready"))
    /\ pc' = "swap_buffers"
    /\ UNCHANGED api
    /\ UNCHANGED objects
    /\ UNCHANGED aux
    /\ UNCHANGED output
    /\ UNCHANGED <<nodes, active_camera_path, shaders, active_shader, frame,
                   should_close, update_calls, items, camera, draws>>

\* self.context.emit(Event::Update) of render_loop; a callback may call
\* context.window.set_should_close(true)
emit_update ==
    /\ pc = "emit"
    /\ LET pass == emit("Update", update_calls)
       IN  /\ update_calls' = pass.calls
           /\ visited' = {pass.visits}
    /\ \E close \in (IF \E n \in Ids : as_behavior(n) /\ nodes[n].callback
                     THEN BOOLEAN ELSE {FALSE}) :
          should_close' = (should_close \/ close)
    /\ trace' = Append(trace, Step("Update"))
    /\ pc' = "swap_buffers"
    /\ UNCHANGED api
    /\ UNCHANGED objects
    /\ UNCHANGED aux
    /\ UNCHANGED output
    /\ UNCHANGED <<nodes, active_camera_path, shaders, active_shader, frame,
                   ready_calls, items, camera, draws>>

\* self.context.window.swap_buffers()
swap_buffers ==
    /\ pc = "swap_buffers"
    /\ trace' = Append(trace, Step("swap_buffers"))
    /\ pc' = "render_loop"
    /\ UNCHANGED api
    /\ UNCHANGED objects
    /\ UNCHANGED aux
    /\ UNCHANGED output
    /\ UNCHANGED <<nodes, active_camera_path, shaders, active_shader, frame,
                   should_close, ready_calls, update_calls, visited, items,
                   camera, draws>>

Next ==
    \/ begin
    \/ render_loop_enter
    \/ render_loop_return
    \/ clear
    \/ shadow_depth_pass
    \/ cube_shadow_depth_pass
    \/ render_main_pass
    \/ render_ui_pass
    \/ update_context
    \/ update_ui
    \/ emit_update
    \/ swap_buffers

Spec == Init /\ [][Next]_vars

-----------------------------------------------------------------------------
(* Properties of the frame loop *)

\* the names of the steps of frame f, in the order of their execution
FrameSteps(f) ==
    LET mine == SelectSeq(trace, LAMBDA e : e[1] = f)
    IN  [i \in 1..Len(mine) |-> mine[i][2]]

IsPrefix(s, t) == Len(s) <= Len(t) /\ \A i \in 1..Len(s) : s[i] = t[i]

\* frame f has run to its end
FrameDone(f) == f < frame \/ (f = frame /\ pc \in {"render_loop", "returned"})

\* the frame as render_loop runs it
CodeOrder ==
    <<"clear", "shadow_depth_pass", "cube_shadow_depth_pass",
      "render_main_pass", "render_ui_pass", "update_context", "update_ui",
      "Update", "swap_buffers">>

\* the frame as the specification states it
ClaimedOrder ==
    <<"clear", "shadow_depth_pass", "cube_shadow_depth_pass",
      "render_main_pass", "render_ui_pass", "Update", "update_ui",
      "swap_buffers">>

Range(s) == {s[i] : i \in 1..Len(s)}

\* C1 as stated: the steps of every frame are clear, directional-shadow
\* pass, point-shadow pass, main pass, UI pass, update callbacks, UI data
\* refresh, present, in this order
C1_ClaimedFrameOrder ==
    \A f \in 1..frame :
        LET done == SelectSeq(FrameSteps(f), LAMBDA x : x \in Range(ClaimedOrder))
        IN  /\ IsPrefix(done, ClaimedOrder)
            /\ FrameDone(f) => done = ClaimedOrder

\* C1 amended: the steps of every frame are clear, directional-shadow pass,
\* point-shadow pass, main pass, UI pass, context update, UI data refresh,
\* update callbacks, present, in this order, none skipped or repeated
C1_FrameOrder ==
    \A f \in 1..frame :
        LET steps == FrameSteps(f)
        IN  /\ IsPrefix(steps, CodeOrder)
            /\ FrameDone(f) => steps = CodeOrder

\* a frame has run to its end with the UI data refreshed before the update
\* callbacks
C1_Witness ==
    /\ frame = 1
    /\ pc = "render_loop"
    /\ FrameSteps(1) = CodeOrder

Count(s, x) == Cardinality({i \in 1..Len(s) : s[i] = x})

\* C2: once begin has run, Ready has been emitted exactly once, as the
\* first step and before the first clear, every node with a ready callback
\* has had it run exactly once, and every finished frame has emitted Update
\* exactly once
C2_ReadyOnceUpdateEveryFrame ==
    pc # "begin" =>
        /\ Count(trace, <<0, "Ready">>) = 1
        /\ trace[1] = <<0, "Ready">>
        /\ \A i \in 1..Len(trace) : trace[i][2] = "Ready" => trace[i][1] = 0
        /\ \A n \in Ids :
              ready_calls[n] = IF as_ready(n) /\ nodes[n].callback THEN 1 ELSE 0
        /\ \A f \in 1..frame : FrameDone(f) => Count(FrameSteps(f), "Update") = 1

\* the run has ended after MaxFrames frames, each of which ran the update
\* callback of a node whose ready callback ran once
C2_Witness ==
    /\ pc = "returned"
    /\ frame = MaxFrames
    /\ \E n \in Ids : ready_calls[n] = 1 /\ update_calls[n] = MaxFrames

\* node n offers a behavior to the update pass and stores a callback for it
HasBehavior(n) == as_behavior(n) /\ nodes[n].callback

-----------------------------------------------------------------------------
(* Properties of the traversals *)

RECURSIVE IsAncestor(_, _)
\* node a is a proper ancestor of node n
IsAncestor(a, n) ==
    /\ nodes[n].parent # 0
    /\ (nodes[n].parent = a \/ IsAncestor(a, nodes[n].parent))

InSubtree(a, n) == a = n \/ IsAncestor(a, n)

\* log visits every node once, a node before its descendants, and the
\* subtree of a node without interruption
PreOrder(log) ==
    /\ Len(log) = Cardinality(Ids)
    /\ Range(log) = Ids
    /\ \A j \in 1..Len(log) : \A i \in 1..Len(log) :
          IsAncestor(log[i], log[j]) => i < j
    /\ \A i \in 1..Len(log) : \A k \in (i + 2)..Len(log) :
          InSubtree(log[i], log[k]) =>
              \A j \in (i + 1)..(k - 1) : InSubtree(log[i], log[j])

\* C5: every traversal of the tree (ready pass, behavior pass,
\* collect_items, draw_node, draw_node_shadow) is depth-first pre-order
C5_TraversalsPreOrder == \A log \in visited : PreOrder(log)

\* the main pass has drawn a tree in which a node with a child is followed
\* by a sibling
C5_Witness ==
    /\ pc = "render_ui_pass"
    /\ \E log \in visited :
          /\ Len(log) = 3
          /\ nodes[log[2]].parent = log[1]
          /\ nodes[log[3]].parent = nodes[log[1]].parent

RECURSIVE World(_)
\* the fold, root to node, of the local transforms of the ancestors of n and
\* of n itself
World(n) ==
    IF nodes[n].parent = 0
    THEN Add(default, nodes[n].transform)
    ELSE Add(World(nodes[n].parent), nodes[n].transform)

\* pairs holds every node of the variant N once, with its world transform,
\* and nothing else
Collected(N, pairs) ==
    /\ \A n \in Ids :
          nodes[n].kind = N =>
              Cardinality({i \in 1..Len(pairs) : pairs[i][1] = n}) = 1
    /\ \A i \in 1..Len(pairs) :
          /\ pairs[i][1] \in Ids
          /\ nodes[pairs[i][1]].kind = N
          /\ pairs[i][2] = World(pairs[i][1])

\* C6: typed collection from every root returns every node of the requested
\* variant exactly once, nested ones included, each with the fold, root to
\* node, of the local transforms of its ancestors and its own
C6_CollectedWithWorldTransforms ==
    items.variant # "" => Collected(items.variant, items.pairs)

\* the point lights of a tree with a light under a camera under a light
\* have been collected
C6_Witness ==
    /\ items.variant = "PointLight"
    /\ Len(items.pairs) = 2
    /\ \E a, b, c \in Ids :
          /\ nodes[a].kind = "PointLight" /\ nodes[a].parent = 0
          /\ nodes[b].kind = "Camera3D" /\ nodes[b].parent = a
          /\ nodes[c].kind = "PointLight" /\ nodes[c].parent = b
          /\ items.pairs[2] = <<c, Add(Add(nodes[a].transform, nodes[b].transform),
                                       nodes[c].transform)>>

-----------------------------------------------------------------------------
(* The NodeManager API on a scene that starts empty *)

InitManager ==
    /\ nodes = <<>>
    /\ active_camera_path = <<>>
    /\ shaders = {}
    /\ active_shader = ""
    /\ pc = "begin"
    /\ frame = 0
    /\ should_close = FALSE
    /\ trace = <<>>
    /\ ready_calls = <<>>
    /\ update_calls = <<>>
    /\ visited = {}
    /\ items = [variant |-> "", pairs |-> <<>>]
    /\ camera = None
    /\ draws = <<>>
    /\ shadows = <<>>
    /\ warnings = <<>>
    /\ node_transform = NodeTransform_default
    /\ light = NoLight
    /\ Idle
    /\ created = 0
    /\ inserted = <<>>
    /\ active_camera = 0
    /\ result = NoCall

NextManager ==
    \/ NodeManager_add
    \/ NodeManager_get
    \/ NodeManager_get_mut
    \/ NodeManager_iterate

SpecManager == InitManager /\ [][NextManager]_vars

\* C9: get::<T>(name) and get_mut::<T>(name) return a node exactly when the
\* manager holds a node of variant T under that name, that node, and leave
\* the nodes, the active camera and the active shader as they were
C9_TypedLookup ==
    result.op \in {"get", "get_mut"} =>
        /\ result.outcome = "Ok"
        /\ result.value # 0 <=>
              \E n \in Ids : /\ nodes[n].parent = 0
                             /\ nodes[n].name = result.name
                             /\ nodes[n].kind = result.variant
        /\ result.value # 0 =>
              /\ result.value \in Ids
              /\ nodes[result.value].parent = 0
              /\ nodes[result.value].name = result.name
              /\ nodes[result.value].kind = result.variant
        /\ Manager = result.before

\* a lookup of a name the manager holds under another variant has returned
\* None
C9_Witness ==
    /\ result.op = "get_mut"
    /\ result.value = 0
    /\ \E n \in Ids : nodes[n].name = result.name /\ nodes[n].kind # result.variant

\* the call was an add under a name the manager already held
DuplicateAdd ==
    /\ result.op = "add"
    /\ \E n \in DOMAIN result.before.nodes :
          /\ result.before.nodes[n].parent = 0
          /\ result.before.nodes[n].name = result.name

\* C10: an add under a name the manager already holds is rejected with a
\* failure result and leaves the nodes and the active camera unchanged
C10_DuplicateAddRejected ==
    DuplicateAdd =>
        /\ result.outcome = "Err"
        /\ nodes = result.before.nodes
        /\ active_camera = result.before.active_camera

\* the nodes of variant T ("Node": any) in the order of their insertion
InsertionOrder(T) ==
    SelectSeq(inserted, LAMBDA i : T = "Node" \/ nodes[i].kind = T)

\* C11: every iteration over the manager (get_all, get_iter, get_vec) yields
\* the nodes in the order in which they were added
C11_IterationInInsertionOrder ==
    result.op \in {"get_all", "get_iter", "get_vec"} =>
        result.value = InsertionOrder(result.variant)

-----------------------------------------------------------------------------
(* The frame loop on scenes that may lack a shader or a camera *)

InitWarn == Loaded({"Camera3D", "Model"}, {"", "default"})

SpecWarn == InitWarn /\ [][Next]_vars

\* the active camera path of the scene resolves to a camera
Resolvable == traverse_camera_path(active_camera_path).found

\* the lights and the models of the scene
Drawable(K) == {n \in Ids : nodes[n].kind = K}

\* C12: while the active camera path does not resolve to a camera, the
\* directional-shadow pass has rendered no shadow map and the main pass has
\* issued no draw call, and every frame still runs all its steps to present
C12_UnresolvedCameraSkipsPasses ==
    ~Resolvable =>
        /\ shadows = <<>>
        /\ draws = <<>>
        /\ \A f \in 1..frame : FrameDone(f) => FrameSteps(f) = CodeOrder

\* a frame on a scene with a light and a model but no resolvable camera has
\* run to its end
C12_Witness ==
    /\ ~Resolvable
    /\ active_camera_path # <<>>
    /\ Drawable("DirectionalLight") # {}
    /\ Drawable("Model") # {}
    /\ frame = 1
    /\ pc = "render_loop"

\* the warnings logged so far about a pass that was skipped: all but the
\* one of begin about the missing shader
CameraWarnings ==
    SelectSeq(warnings, LAMBDA w : w # "Warning: No shader found in the scene")

\* C13: once the main pass of a frame has been skipped for want of a camera,
\* the warning about it has been logged exactly once, however many frames
\* have run
C13_WarnedExactlyOnce ==
    (~Resolvable /\ \E f \in 1..frame : Count(FrameSteps(f), "render_main_pass") = 1) =>
        Len(CameraWarnings) = 1

-----------------------------------------------------------------------------
(* The ready pass run again and again on one scene *)

\* a call of NodeManager::ready on the nodes of the scene
NodeManager_ready ==
    /\ pc = "begin"
    /\ Len(trace) < MaxReadyPasses
    /\ LET pass == ready(values(0), 1, Pass(ready_calls))
       IN  /\ ready_calls' = pass.calls
           /\ visited' = visited \cup {pass.visits}
    /\ trace' = Append(trace, Step("Ready"))
    /\ UNCHANGED api
    /\ UNCHANGED objects
    /\ UNCHANGED aux
    /\ UNCHANGED output
    /\ UNCHANGED <<nodes, active_camera_path, shaders, active_shader, pc,
                   frame, should_close, update_calls, items, camera, draws>>

NextReady == NodeManager_ready

SpecReady == Init /\ [][NextReady]_vars

\* C3: however often the ready pass runs, the Ready callback of a node has
\* been invoked at most once
C3_ReadyAtMostOnce ==
    \A n \in Ids : ready_calls[n] <= 1

-----------------------------------------------------------------------------
(* The resolution of a camera path *)

\* the names of the nodes of the trees a path is resolved in: few, so that
\* nodes under different parents share a name
PathNames == {1, 2}

\* the camera paths of at most n segments
Paths(n) == UNION {[1..k -> PathNames] : k \in 0..n}

\* the tree t with its nodes renamed in every way that keeps the names
\* under one parent distinct
Renamed(t) ==
    {[i \in DOMAIN t |-> [t[i] EXCEPT !.name = nm[i]]] :
        nm \in {m \in [DOMAIN t -> PathNames] :
                  \A i, j \in DOMAIN t :
                      (i # j /\ t[i].parent = t[j].parent) => m[i] # m[j]}}

InitPath ==
    /\ \E n \in 0..MaxNodes :
          nodes \in UNION {Renamed(t) : t \in Trees(n, {"Camera3D", "Empty"}, {})}
    /\ active_camera_path \in Paths(MaxPathLen)
    /\ shaders = {"default"}
    /\ active_shader = "default"
    /\ pc = "resolve"
    /\ frame = 0
    /\ should_close = FALSE
    /\ trace = <<>>
    /\ ready_calls = [i \in DOMAIN nodes |-> 0]
    /\ update_calls = [i \in DOMAIN nodes |-> 0]
    /\ visited = {}
    /\ items = [variant |-> "", pairs |-> <<>>]
    /\ camera = None
    /\ draws = <<>>
    /\ shadows = <<>>
    /\ warnings = <<>>
    /\ node_transform = NodeTransform_default
    /\ light = NoLight
    /\ Idle
    /\ created = Cardinality(DOMAIN nodes)
    /\ inserted = [i \in 1..Cardinality(DOMAIN nodes) |-> i]
    /\ active_camera = 0
    /\ result = NoCall

\* the main pass resolving the active camera path
resolve_camera ==
    /\ pc = "resolve"
    /\ camera' = traverse_camera_path(active_camera_path)
    /\ pc' = "resolved"
    /\ UNCHANGED api
    /\ UNCHANGED objects
    /\ UNCHANGED aux
    /\ UNCHANGED output
    /\ UNCHANGED <<nodes, active_camera_path, shaders, active_shader, frame,
                   should_close, trace, ready_calls, update_calls, visited,
                   items, draws>>

NextPath == resolve_camera

SpecPath == InitPath /\ [][NextPath]_vars

\* the composition of the local transforms of the ancestors of node n,
\* outermost first
AncestorsTransform(n) ==
    IF nodes[n].parent = 0 THEN default ELSE World(nodes[n].parent)

\* C7: the transform returned with a resolved camera is the composition of
\* the transforms of its ancestors along the path, without its own
C7_AncestorsOnly ==
    (pc = "resolved" /\ camera.found) =>
        /\ camera.transform = AncestorsTransform(camera.node)
        /\ camera.transform # World(camera.node)

\* a camera below two ancestors has been resolved
C7_Witness ==
    /\ pc = "resolved"
    /\ camera.found
    /\ Len(active_camera_path) = 3

\* the nodes `path` names, one below the other from the root of the scene
Chain(path) ==
    {c \in [1..Len(path) -> Ids] :
        \A k \in 1..Len(path) :
            /\ nodes[c[k]].name = path[k]
            /\ nodes[c[k]].parent = IF k = 1 THEN 0 ELSE c[k - 1]}

\* C8: the resolution returns a camera exactly when every segment of the
\* path names an existing node and the last one is a camera, that camera;
\* an empty path and a missing segment give None
C8_ResolvesIffChainToCamera ==
    pc = "resolved" =>
        LET path == active_camera_path
            hits == {c \in Chain(path) :
                        path # <<>> /\ nodes[c[Len(path)]].kind = "Camera3D"}
        IN  /\ camera.found <=> hits # {}
            /\ camera.found => \E c \in hits : camera.node = c[Len(path)]
            /\ ~camera.found => camera = None

\* a path whose first segment exists and whose second is missing has
\* resolved to None
C8_Witness ==
    /\ pc = "resolved"
    /\ ~camera.found
    /\ Len(active_camera_path) >= 2
    /\ HashMap_get(0, active_camera_path[1]) # 0
    /\ HashMap_get(HashMap_get(0, active_camera_path[1]), active_camera_path[2]) = 0

-----------------------------------------------------------------------------
(* The methods of NodeTransform on one transform *)

\* the variables of a loaded scene and of the frames run on it
scene == <<nodes, active_camera_path, shaders, active_shader, pc, frame,
           should_close, trace, ready_calls, update_calls, visited, items,
           camera, draws>>

Coords == (0 - MaxCoord)..MaxCoord

Vectors == Coords \X Coords

\* the scale factors: whole and positive
Scales == (1..MaxCoord) \X (1..MaxCoord)

\* the unit steps along the axes and none
Offsets == ((0 - 1)..1) \X ((0 - 1)..1)

\* whole quarter turns, in degrees
Degrees == {0 - 90, 0, 90, 180}

Quats == 0..3

\* the transforms whose fields are within the bounds
InRange(t) == t.position \in Vectors /\ t.scale \in Scales

\* a call of a method, recorded as the last call
Called(op, variant) ==
    result' = [op |-> op, name |-> 0, variant |-> variant, outcome |-> "Ok",
               value |-> 0, before |-> 0]

\* a method of NodeTransform takes the transform from t to u
Method(op, u) ==
    /\ InRange(u)
    /\ node_transform' = u
    /\ Called(op, "NodeTransform")
    /\ UNCHANGED <<scene, output, light, aux, created, active_camera, inserted>>

NodeTransform_set_position ==
    \E position \in Vectors :
        Method("set_position", set_position(node_transform, position))

NodeTransform_set_rotation ==
    \E rotation \in Quats :
        Method("set_rotation", set_rotation(node_transform, rotation))

NodeTransform_set_euler_xyz ==
    \E degrees \in Degrees :
        Method("set_euler_xyz", set_euler_xyz(node_transform, degrees))

NodeTransform_set_scale ==
    \E factors \in Scales :
        Method("set_scale", set_scale(node_transform, factors))

NodeTransform_scale ==
    \E factors \in Scales : Method("scale", scale(node_transform, factors))

NodeTransform_translate ==
    \E offset \in Offsets :
        Method("translate", translate(node_transform, offset))

NodeTransform_rotate ==
    \E degrees \in Degrees : Method("rotate", rotate(node_transform, degrees))

NodeTransform_rotate_euler_xyz ==
    \E degrees \in Degrees :
        Method("rotate_euler_xyz", rotate_euler_xyz(node_transform, degrees))

\* a transform built by NodeTransform::new or NodeTransform::default
InitTransform ==
    /\ nodes = <<>>
    /\ active_camera_path = <<>>
    /\ shaders = {}
    /\ active_shader = ""
    /\ pc = "begin"
    /\ frame = 0
    /\ should_close = FALSE
    /\ trace = <<>>
    /\ ready_calls = <<>>
    /\ update_calls = <<>>
    /\ visited = {}
    /\ items = [variant |-> "", pairs |-> <<>>]
    /\ camera = None
    /\ draws = <<>>
    /\ shadows = <<>>
    /\ warnings = <<>>
    /\ node_transform \in
          {NodeTransform_default} \cup
          {NodeTransform_new(position, rotation, factors) :
              position \in Vectors, rotation \in Quats, factors \in Scales}
    /\ light = NoLight
    /\ Idle
    /\ created = 0
    /\ inserted = <<>>
    /\ active_camera = 0
    /\ result = NoCall

NextTransform ==
    \/ NodeTransform_set_position
    \/ NodeTransform_set_rotation
    \/ NodeTransform_set_euler_xyz
    \/ NodeTransform_set_scale
    \/ NodeTransform_scale
    \/ NodeTransform_translate
    \/ NodeTransform_rotate
    \/ NodeTransform_rotate_euler_xyz

SpecTransform == InitTransform /\ [][NextTransform]_vars

\* the matrix that places, turns and scales as the fields of t say, written
\* out entry by entry
Composed(t) ==
    <<<<cos(t.rotation) * t.scale[1], (0 - sin(t.rotation)) * t.scale[2], t.position[1]>>,
      <<sin(t.rotation) * t.scale[1], cos(t.rotation) * t.scale[2], t.position[2]>>,
      <<0, 0, 1>>>>

\* C14: after construction and after every method of NodeTransform the matrix
\* is translation(position) * rotation(rotation) * scaling(scale) of the
\* fields the transform has now
C14_MatrixOfCurrentFields == node_transform.matrix = Composed(node_transform)

\* a transform that was moved, turned and scaled, and whose last call was translate
C14_Witness ==
    /\ result.op = "translate"
    /\ node_transform.position = <<1, 0 - 2>>
    /\ node_transform.rotation = 1
    /\ node_transform.scale = <<2, 1>>

-----------------------------------------------------------------------------
(* The methods of Camera3D on the transform of one camera.  The plane of the
   model is the plane of the z and the x axis, a vector is <<z, x>> and a
   rotation turns about the y axis: the camera does not pitch and does not
   move up or down. *)

\* NodeTransform::get_forward_vector: the rotation applied to (0, 0, 1)
get_forward_vector(t) == <<cos(t.rotation), sin(t.rotation)>>

\* the unit vectors of the plane
Orientations == {<<1, 0>>, <<0, 1>>, <<0 - 1, 0>>, <<0, 0 - 1>>}

\* the quaternion of Camera3D::new and set_orientation_vector: the turn by
\* acos(dot((0, 0, 1), orientation)) about cross((0, 0, 1), orientation).  For
\* the orientation (0, 0, -1) the axis is the zero vector and the quaternion
\* has the matrix of no turn
orientation_quat(orientation) ==
    LET rotation_axis == orientation[2]
        rotation_angle == CASE orientation[1] = 1 -> 0
                            [] orientation[1] = 0 -> 1
                            [] orientation[1] = 0 - 1 -> 2
    IN  IF rotation_axis = 0 THEN 0 ELSE (rotation_axis * rotation_angle) % 4

\* Camera3D::new: the transform of the new camera
Camera3D_new(position, orientation) ==
    NodeTransform_new(position, orientation_quat(orientation), <<1, 1>>)

\* Camera3D::move_camera
move_camera(t, offset) ==
    [t EXCEPT !.position = <<t.position[1] + offset[1],
                             t.position[2] + offset[2]>>]

\* Camera3D::rotate_camera for a mouse offset along x of so many quarter
\* turns: the pitch stays 0 and the yaw turns by -offset
rotate_camera(t, offset) ==
    LET yaw_quat == (0 - offset) % 4
        new_rotation == (yaw_quat + t.rotation) % 4
    IN  set_rotation(t, new_rotation)

\* Camera3D::set_position
Camera3D_set_position(t, position) == [t EXCEPT !.position = position]

\* Camera3D::set_orientation_vector
set_orientation_vector(t, orientation) ==
    set_rotation(t, orientation_quat(orientation))

\* Camera3D::set_orientation_angles for a yaw in degrees, pitch and roll 0
set_orientation_angles(t, yaw) ==
    set_orientation_vector(t, <<cos(quat_angle_axis(yaw)), sin(quat_angle_axis(yaw))>>)

\* the keys take_input moves the camera in the plane by
MoveKeys == {"W", "A", "S", "D"}

\* Camera3D::take_input with a speed of one unit a call
take_input(t, movement_enabled, key, mouse_offset) ==
    IF ~movement_enabled THEN t
    ELSE LET forward == get_forward_vector(t)
             right == <<forward[2], 0 - forward[1]>>
             Sign(k, plus, minus) ==
                 (IF plus \in key THEN k ELSE 0) - (IF minus \in key THEN k ELSE 0)
             movement_offset ==
                 <<Sign(forward[1], "W", "S") + Sign(right[1], "D", "A"),
                   Sign(forward[2], "W", "S") + Sign(right[2], "D", "A")>>
             moved == move_camera(t, movement_offset)
         IN  IF mouse_offset # 0 THEN rotate_camera(moved, mouse_offset)
             ELSE moved

\* a method of Camera3D takes the transform of the camera to u
CameraMethod(u) ==
    /\ InRange(u)
    /\ node_transform' = u
    /\ UNCHANGED <<scene, output, light, aux, api>>

Camera3D_move_camera ==
    \E offset \in Offsets : CameraMethod(move_camera(node_transform, offset))

Camera3D_rotate_camera ==
    \E offset \in (0 - 1)..1 : CameraMethod(rotate_camera(node_transform, offset))

Camera3D_set_position_call ==
    \E position \in Vectors :
        CameraMethod(Camera3D_set_position(node_transform, position))

Camera3D_set_orientation_vector ==
    \E orientation \in Orientations :
        CameraMethod(set_orientation_vector(node_transform, orientation))

Camera3D_set_orientation_angles ==
    \E yaw \in Degrees :
        CameraMethod(set_orientation_angles(node_transform, yaw))

Camera3D_take_input ==
    \E movement_enabled \in BOOLEAN, key \in SUBSET MoveKeys,
       mouse_offset \in (0 - 1)..1 :
        CameraMethod(take_input(node_transform, movement_enabled, key, mouse_offset))

\* a camera built by Camera3D::new
InitCamera ==
    /\ nodes = <<>>
    /\ active_camera_path = <<>>
    /\ shaders = {}
    /\ active_shader = ""
    /\ pc = "begin"
    /\ frame = 0
    /\ should_close = FALSE
    /\ trace = <<>>
    /\ ready_calls = <<>>
    /\ update_calls = <<>>
    /\ visited = {}
    /\ items = [variant |-> "", pairs |-> <<>>]
    /\ camera = None
    /\ draws = <<>>
    /\ shadows = <<>>
    /\ warnings = <<>>
    /\ node_transform \in
          {Camera3D_new(position, orientation) :
              position \in Vectors, orientation \in Orientations}
    /\ light = NoLight
    /\ Idle
    /\ created = 0
    /\ inserted = <<>>
    /\ active_camera = 0
    /\ result = NoCall

NextCamera ==
    \/ Camera3D_move_camera
    \/ Camera3D_rotate_camera
    \/ Camera3D_set_position_call
    \/ Camera3D_set_orientation_vector
    \/ Camera3D_set_orientation_angles
    \/ Camera3D_take_input

SpecCamera == InitCamera /\ [][NextCamera]_vars

\* C15: after every method of Camera3D that moves or turns the camera the
\* matrix of its transform is the composition of the position, the rotation
\* and the scale the transform has now
C15_CameraMatrixConsistent == node_transform.matrix = Composed(node_transform)

-----------------------------------------------------------------------------
(* DirectionalLight: cascade splits, cascades and the rotation of a direction.
   An f32 is modelled exactly, as a fraction <<numerator, denominator>> in
   lowest terms; the denominator 0 stands for the values a division by zero
   gives: <<1, 0>> and <<-1, 0>> are the infinities and <<0, 0>> is NaN. *)

\* the largest numerator and denominator of the ratio far / near of one split
MaxRatio == 2

\* the largest number of cascades of a light
MaxCascades == 2

RECURSIVE Gcd(_, _)
Gcd(a, b) == IF b = 0 THEN a ELSE Gcd(b, a % b)

Abs(a) == IF a < 0 THEN 0 - a ELSE a

Sgn(a) == IF a < 0 THEN 0 - 1 ELSE IF a = 0 THEN 0 ELSE 1

\* the f32 of the fraction n / d
F(n, d) ==
    IF d = 0 THEN <<Sgn(n), 0>>
    ELSE LET g == Gcd(Abs(n), Abs(d))
         IN  <<(Sgn(d) * n) \div g, Abs(d) \div g>>

IsNaN(a) == a = <<0, 0>>

\* a + b
FAdd(a, b) ==
    IF a[2] # 0 /\ b[2] # 0 THEN F(a[1] * b[2] + b[1] * a[2], a[2] * b[2])
    ELSE IF IsNaN(a) \/ IsNaN(b) THEN <<0, 0>>
    ELSE IF a[2] = 0 /\ b[2] = 0 THEN (IF a = b THEN a ELSE <<0, 0>>)
    ELSE IF a[2] = 0 THEN a ELSE b

\* a - b
FSub(a, b) == FAdd(a, <<0 - b[1], b[2]>>)

\* a * b
FMul(a, b) == F(a[1] * b[1], a[2] * b[2])

\* a / b
FDiv(a, b) ==
    IF IsNaN(a) \/ IsNaN(b) THEN <<0, 0>>
    ELSE IF b[2] = 0 THEN (IF a[2] = 0 THEN <<0, 0>> ELSE <<0, 1>>)
    ELSE IF a[2] = 0 THEN (IF b[1] < 0 THEN <<0 - a[1], 0>> ELSE a)
    ELSE F(a[1] * b[2], a[2] * b[1])

\* a < b
FLess(a, b) ==
    /\ ~IsNaN(a)
    /\ ~IsNaN(b)
    /\ a # b
    /\ IF a[2] # 0 /\ b[2] # 0 THEN a[1] * b[2] < b[1] * a[2]
       ELSE IF a[2] = 0 THEN a[1] < 0 ELSE b[1] > 0

RECURSIVE FPow(_, _)
FPow(a, k) == IF k = 0 THEN <<1, 1>> ELSE FMul(a, FPow(a, k - 1))

\* the ratios whose powers are the far / near of the model
Ratios == {F(a, b) : a \in 1..MaxRatio, b \in 1..MaxRatio}

\* f32::powf(base, i / n): exact where the base is 0 or the n-th power of a
\* ratio of the model
powf(base, i, n) ==
    IF base = <<0, 1>> THEN <<0, 1>>
    ELSE LET root == CHOOSE r \in Ratios : FPow(r, n) = base
         IN  FPow(root, i)

\* the near plane of the splits and of the cascades
near == F(1, 10)

\* the shadow distances whose splits into n cascades the model computes exactly
Fars(n) == {<<0, 1>>} \cup {FMul(near, FPow(r, n)) : r \in Ratios}

\* DirectionalLight::calculate_cascade_splits
calculate_cascade_splits(near_plane, far_plane, num_cascades, lambda) ==
    [i \in 1..num_cascades |->
        LET uniform_split ==
                FAdd(near_plane, FMul(FSub(far_plane, near_plane), F(i, num_cascades)))
            log_split ==
                FMul(near_plane, powf(FDiv(far_plane, near_plane), i, num_cascades))
            split == FAdd(FMul(lambda, log_split),
                          FMul(FSub(<<1, 1>>, lambda), uniform_split))
        IN  FDiv(split, far_plane)]

\* DirectionalLight::gen_cascades: a cascade is its planes and the radius its
\* projection and its view are built from
gen_cascades(far_plane, num_cascades, cascade_factors) ==
    [k \in 1..num_cascades |->
        LET radius == FMul(FDiv(far_plane, <<2, 1>>),
                           IF k \in DOMAIN cascade_factors
                           THEN cascade_factors[k] ELSE <<1, 1>>)
        IN  [near_plane |-> near, far_plane |-> far_plane, radius |-> radius]]

\* the directions of the model: the vectors <<x, y, z>> of whole components
\* that are not the zero vector.  A direction is compared as a ray, so that
\* glm::normalize is the identity on it
Directions == (((0 - 1)..1) \X ((0 - 1)..1) \X ((0 - 1)..1)) \ {<<0, 0, 0>>}

reference == <<0, 0, 1>>

dot(a, b) == a[1] * b[1] + a[2] * b[2] + a[3] * b[3]

cross(a, b) ==
    <<a[2] * b[3] - a[3] * b[2], a[3] * b[1] - a[1] * b[3],
      a[1] * b[2] - a[2] * b[1]>>

\* the two vectors point the same way
SameRay(a, b) == cross(a, b) = <<0, 0, 0>> /\ dot(a, b) > 0

\* f32::acos of a whole number, in quarter turns
acos(c) == CASE c = 1 -> 0 [] c = 0 -> 1 [] c = 0 - 1 -> 2

\* the rotation DirectionalLight::new and set_direction compute for a
\* direction: glm::quat_angle_axis(angle, axis), kept as the angle in quarter
\* turns and the axis
rotation_quat(direction) ==
    IF Abs(dot(direction, reference)) * 10000 > 9999
    THEN IF direction[3] > 0
         THEN [angle |-> 0, axis |-> <<0, 0, 0>>]
         ELSE [angle |-> 2, axis |-> <<1, 0, 0>>]
    ELSE LET rotation_axis == cross(reference, direction)
             rotation_angle == acos(dot(reference, direction))
         IN  [angle |-> rotation_angle, axis |-> rotation_axis]

\* glm::quat_rotate_vec3(rotation, v) for a v the axis is normal to, as a ray
quat_rotate_vec3(rotation, v) ==
    CASE rotation.angle = 0 -> v
      [] rotation.angle = 1 -> cross(rotation.axis, v)
      [] rotation.angle = 2 -> <<0 - v[1], 0 - v[2], 0 - v[3]>>

\* DirectionalLight::new
DirectionalLight_new(direction, shadow_distance, num_cascades) ==
    LET cascade_factors ==
            calculate_cascade_splits(near, shadow_distance, num_cascades, F(7, 10))
    IN  [constructed |-> TRUE,
         rotation |-> rotation_quat(direction),
         shadow_distance |-> shadow_distance,
         num_cascades |-> num_cascades,
         direction |-> direction,
         far_plane |-> shadow_distance,
         cascade_factors |-> cascade_factors,
         cascades |-> gen_cascades(shadow_distance, num_cascades, cascade_factors)]

\* DirectionalLight::get_far_plane
get_far_plane(l) == l.shadow_distance

\* DirectionalLight::set_far_plane
set_far_plane(l, distance) == [l EXCEPT !.shadow_distance = distance]

\* DirectionalLight::set_direction
set_direction(l, direction) == [l EXCEPT !.rotation = rotation_quat(direction)]

\* DirectionalLight::get_vps: the far plane the view is placed by, and the
\* cascades whose projections are used
get_vps(l) == [far_plane |-> l.far_plane, cascades |-> l.cascades]

\* a call on the light, recorded with its argument as the last call
LightCall(op, value, l) ==
    /\ light' = l
    /\ result' = [op |-> op, name |-> 0, variant |-> "DirectionalLight",
                  outcome |-> "Ok", value |-> value, before |-> 0]
    /\ UNCHANGED <<scene, output, node_transform, aux, created, active_camera,
                   inserted>>

DirectionalLight_new_call ==
    /\ ~light.constructed
    /\ \E direction \in Directions, num_cascades \in 0..MaxCascades :
       \E shadow_distance \in Fars(num_cascades) :
          LightCall("new", direction,
                    DirectionalLight_new(direction, shadow_distance, num_cascades))

DirectionalLight_set_far_plane ==
    /\ light.constructed
    /\ \E distance \in Fars(light.num_cascades) :
          LightCall("set_far_plane", distance, set_far_plane(light, distance))

DirectionalLight_set_direction ==
    /\ light.constructed
    /\ \E direction \in Directions :
          LightCall("set_direction", direction, set_direction(light, direction))

NextLight ==
    \/ DirectionalLight_new_call
    \/ DirectionalLight_set_far_plane
    \/ DirectionalLight_set_direction

SpecLight == InitManager /\ [][NextLight]_vars

\* C16: the splits DirectionalLight::new computes for a positive far distance
\* and n >= 1 cascades are n fractions, strictly increasing, all greater than
\* 0 and at most 1, the last one 1
C16_SplitsIncreasingToOne ==
    (/\ light.constructed
     /\ result.op = "new"
     /\ FLess(<<0, 1>>, light.shadow_distance)
     /\ light.num_cascades >= 1) =>
        LET f == light.cascade_factors
        IN  /\ Len(f) = light.num_cascades
            /\ \A i \in 1..Len(f) :
                  /\ FLess(<<0, 1>>, f[i])
                  /\ ~FLess(<<1, 1>>, f[i])
                  /\ ~IsNaN(f[i])
            /\ \A i \in 1..(Len(f) - 1) : FLess(f[i], f[i + 1])
            /\ f[Len(f)] = <<1, 1>>

\* C17: a light constructed with the far distance 0 or with 0 cascades has
\* exactly one cascade, with the split fraction 1
C17_DegenerateFallsBackToOneCascade ==
    (/\ light.constructed
     /\ result.op = "new"
     /\ (light.shadow_distance = <<0, 1>> \/ light.num_cascades = 0)) =>
        /\ Len(light.cascades) = 1
        /\ light.cascade_factors = <<<<1, 1>>>>

\* C18: after set_far_plane(d) the far plane and the cascades get_vps uses
\* are those of d, and get_far_plane() is the far plane get_vps uses
C18_FarPlaneUsedForRendering ==
    (light.constructed /\ result.op = "set_far_plane") =>
        LET d == result.value
        IN  /\ get_vps(light).far_plane = d
            /\ get_vps(light).cascades =
                  gen_cascades(d, light.num_cascades,
                      calculate_cascade_splits(near, d, light.num_cascades, F(7, 10)))
            /\ get_far_plane(light) = get_vps(light).far_plane

\* C19: the rotation stored by DirectionalLight::new and by set_direction
\* takes (0, 0, 1) to the direction that was given, and it is the identity or
\* the half turn only for a direction along the z axis
C19_RotationReproducesDirection ==
    (light.constructed /\ result.op \in {"new", "set_direction"}) =>
        /\ SameRay(quat_rotate_vec3(light.rotation, reference), result.value)
        /\ light.rotation.angle \in {0, 2} =>
              cross(reference, result.value) = <<0, 0, 0>>

\* the steps taken from the head of the loop and into the return of render_loop
LoopStep ==
    /\ (pc = "render_loop" /\ ~should_close) =>
          (pc' = "clear" /\ frame' = frame + 1)
    /\ (pc = "render_loop" /\ should_close) => pc' = "returned"
    /\ pc' = "returned" => (pc \in {"render_loop", "returned"} /\ should_close)
    /\ frame' # frame => (pc = "render_loop" /\ ~should_close)
    /\ pc = "returned" => pc' = "returned"

\* C20: at the head of the loop a frame starts exactly when the window does
\* not ask to close and render_loop returns exactly when it does; a frame that
\* started runs all its steps to swap_buffers, also when the window asks to
\* close during it; after that no frame starts, and render_loop returns from
\* nowhere but the head of the loop
C20_LoopEndsWhenWindowCloses ==
    /\ [](\A f \in 1..frame : FrameDone(f) => FrameSteps(f) = CodeOrder)
    /\ [](pc = "returned" => should_close)
    /\ [][LoopStep]_vars

\* render_loop has returned after a first frame during which the window asked
\* to close, and that frame ran to swap_buffers
C20_Witness ==
    /\ pc = "returned"
    /\ frame = 1
    /\ should_close
    /\ FrameSteps(1) = CodeOrder

-----------------------------------------------------------------------------
(* The passes that keep raw pointers to nodes while they run code on them.
   UI::render and UI::update call the closure given to define_ui with the
   whole context; the closure of the model calls nothing or scene.add. *)

\* the passes and the variant each collects pointers to
PointerPasses == {"cube_shadow_depth_pass", "render_ui_pass", "update_ui"}

\* the kinds of the nodes of these scenes
PointerKinds == {"UI", "PointLight"}

\* the pointers pass P collects, in the order it will dereference them
Collect(P) ==
    IF P = "cube_shadow_depth_pass"
    THEN LET lights == collect_roots("PointLight", values(0), 1, Walk).items
         IN  [k \in 1..Len(lights) |-> lights[k][1]]
    ELSE get_iter("UI")

\* a node is added to the scene before the frame loop runs
Scene_add ==
    /\ pointers.pass = ""
    /\ Added(PointerKinds)
    /\ UNCHANGED <<active_camera_path, shaders, active_shader, pc, frame,
                   should_close, trace, visited, items, camera, draws, output,
                   objects, aux>>

\* the first part of a pass: the pointers are collected
collect_pointers ==
    /\ pointers.pass = ""
    /\ \E P \in PointerPasses :
          pointers' = [pass |-> P, ptrs |-> Collect(P), next |-> 1,
                       created |-> created]
    /\ UNCHANGED <<scene, output, objects, api, beside_pointers>>

\* (**light).render_shadow_map and bind_uniforms on the next pointer
dereference_light ==
    /\ pointers.pass = "cube_shadow_depth_pass"
    /\ pointers.next <= Len(pointers.ptrs)
    /\ pointers' = [pointers EXCEPT !.next = @ + 1]
    /\ UNCHANGED <<scene, output, objects, api, beside_pointers>>

\* (*ui).render(&mut self.context) or (*ui).update(&mut self.context) on the
\* next pointer, the closure leaving the scene as it is
dereference_ui ==
    /\ pointers.pass \in {"render_ui_pass", "update_ui"}
    /\ pointers.next <= Len(pointers.ptrs)
    /\ pointers' = [pointers EXCEPT !.next = @ + 1]
    /\ UNCHANGED <<scene, output, objects, api, beside_pointers>>

\* the same, the closure calling context.scene.add
dereference_ui_adding ==
    /\ pointers.pass \in {"render_ui_pass", "update_ui"}
    /\ pointers.next <= Len(pointers.ptrs)
    /\ pointers' = [pointers EXCEPT !.next = @ + 1]
    /\ Added(PointerKinds)
    /\ UNCHANGED <<active_camera_path, shaders, active_shader, pc, frame,
                   should_close, trace, visited, items, camera, draws, output,
                   objects, beside_pointers>>

\* the pass has dereferenced its last pointer
finish_pass ==
    /\ pointers.pass # ""
    /\ pointers.next > Len(pointers.ptrs)
    /\ pointers' = NoPointers
    /\ UNCHANGED <<scene, output, objects, api, beside_pointers>>

NextPointers ==
    \/ Scene_add
    \/ collect_pointers
    \/ dereference_light
    \/ dereference_ui
    \/ dereference_ui_adding
    \/ finish_pass

SpecPointers == InitManager /\ [][NextPointers]_vars

\* C21: from the collection of the pointers of a pass to the return of its
\* last dereference no node has been added to or removed from the tree,
\* whatever the closures called during the pass do
C21_TreeFixedDuringPass ==
    pointers.pass # "" =>
        /\ created = pointers.created
        /\ \A k \in 1..Len(pointers.ptrs) : pointers.ptrs[k] \in Ids

-----------------------------------------------------------------------------
(* Model::new_gltf: the calling thread and the thread it spawns to print the
   progress animation, sharing the flag model_loaded *)

\* the largest number of textures and mesh buffers one file makes new_gltf create
MaxResources == 3

\* the files given to new_gltf: whether gltf::import parses them, and the
\* number of GPU resources their nodes need
Files == [valid : BOOLEAN, resources : 1..MaxResources]

\* a step of a thread of new_gltf
Loading(l) ==
    /\ loader' = l
    /\ UNCHANGED <<scene, output, objects, api, beside_loader>>

\* new_gltf(file) up to thread::spawn
new_gltf_spawn ==
    /\ loader.main = ""
    /\ \E file \in Files :
          Loading([loader EXCEPT !.main = "import", !.spinner = "check",
                                 !.file = file])

\* the spinner: the condition of its while loop is evaluated, then either
\* one frame of the animation is printed or the loop ends, "done" is printed
\* and the thread terminates
spinner_load ==
    /\ loader.spinner = "check"
    /\ Loading(IF loader.model_loaded
               THEN [loader EXCEPT !.spinner = "done"]
               ELSE [loader EXCEPT !.spinner = "sleep", !.i = (@ + 1) % 4])

\* the spinner: thread::sleep returns
spinner_wake ==
    /\ loader.spinner = "sleep"
    /\ Loading([loader EXCEPT !.spinner = "check"])

\* gltf::import(..).expect(..): the file is parsed, or the thread panics
gltf_import ==
    /\ loader.main = "import"
    /\ Loading([loader EXCEPT !.main = IF loader.file.valid
                                       THEN "store" ELSE "panicked"])

\* model_loaded_clone.store(true, SeqCst)
store_loaded ==
    /\ loader.main = "store"
    /\ Loading([loader EXCEPT !.main = "nodes", !.model_loaded = TRUE])

\* the loop over doc.nodes(): the next texture or mesh buffer is created
create_resource ==
    /\ loader.main = "nodes"
    /\ loader.created < loader.file.resources
    /\ Loading([loader EXCEPT !.created = @ + 1])

\* new_gltf returns the Model
new_gltf_return ==
    /\ loader.main = "nodes"
    /\ loader.created = loader.file.resources
    /\ Loading([loader EXCEPT !.main = "returned"])

NextLoader ==
    \/ new_gltf_spawn
    \/ spinner_load
    \/ spinner_wake
    \/ gltf_import
    \/ store_loaded
    \/ create_resource
    \/ new_gltf_return

SpecLoader == InitManager /\ [][NextLoader]_vars

\* C22: the spinner thread has terminated when the first texture or mesh
\* buffer of the model is created, and when the parsing of the file failed
C22_SpinnerDoneBeforeResources ==
    /\ loader.created > 0 => loader.spinner = "done"
    /\ loader.main = "panicked" => loader.spinner = "done"

-----------------------------------------------------------------------------
(* Shader: the cache of uniform locations *)

\* the number of uniform names the callers use
MaxUniforms == 3

\* the number of set_uniform calls on one shader
MaxCalls == 3

\* the uniform names, numbered
UniformNames == 1..MaxUniforms

\* gl::GetUniformLocation(program, name): the location of an active uniform
\* of the program, -1 for any other name
GetUniformLocation(program, name) == IF name \in program THEN name - 1 ELSE 0 - 1

\* Shader::new: the program compiled from sources declaring the uniforms
\* `program`; the cache is empty
Shader_new(program) ==
    [compiled |-> TRUE,
     program |-> program,
     m_uniform_location_cache |-> <<>>,
     queries |-> [n \in UniformNames |-> 0],
     printed |-> [n \in UniformNames |-> 0],
     calls |-> [n \in UniformNames |-> 0],
     location |-> 0]

\* get_uniform_location caching only the locations that exist
get_uniform_location_found_only(sh, name) ==
    IF name \in DOMAIN sh.m_uniform_location_cache
    THEN [sh EXCEPT !.location = sh.m_uniform_location_cache[name]]
    ELSE LET location == GetUniformLocation(sh.program, name)
         IN  [sh EXCEPT
                !.queries[name] = @ + 1,
                !.printed[name] = IF location = 0 - 1 THEN @ + 1 ELSE @,
                !.m_uniform_location_cache =
                    IF location = 0 - 1 THEN @
                    ELSE [n \in DOMAIN @ \cup {name} |->
                             IF n = name THEN location ELSE @[n]],
                !.location = location]

\* Shader::get_uniform_location: the shader after the call; `location` is
\* the value returned, `queries` counts the calls of gl::GetUniformLocation
\* and `printed` the warnings, by name
get_uniform_location(sh, name) ==
    IF name \in DOMAIN sh.m_uniform_location_cache
    THEN [sh EXCEPT !.location = sh.m_uniform_location_cache[name]]
    ELSE LET location == GetUniformLocation(sh.program, name)
         IN  [sh EXCEPT
                !.queries[name] = @ + 1,
                !.printed[name] = IF location = 0 - 1 THEN @ + 1 ELSE @,
                !.m_uniform_location_cache =
                    [n \in DOMAIN @ \cup {name} |->
                        IF n = name THEN location ELSE @[n]],
                !.location = location]

\* a step on the shader
Shading(sh, op, name) ==
    /\ shader' = sh
    /\ result' = [op |-> op, name |-> name, variant |-> "Shader",
                  outcome |-> "Ok", value |-> 0, before |-> 0]
    /\ UNCHANGED <<scene, output, objects, created, active_camera, inserted,
                   beside_shader>>

\* Shader::new
Shader_new_call ==
    /\ ~shader.compiled
    /\ \E program \in SUBSET UniformNames :
          Shading(Shader_new(program), "new", 0)

\* one of set_uniform1i, set_uniform1f, set_uniform3f, set_uniform4f,
\* set_uniform_mat4f, set_uniform_bool: the location is looked up and the
\* value is sent to it
Shader_set_uniform ==
    /\ shader.compiled
    /\ \E name \in UniformNames :
          /\ shader.calls[name] < MaxCalls
          /\ Shading([get_uniform_location(shader, name) EXCEPT !.calls[name] = @ + 1],
                     "set_uniform", name)

NextShader ==
    \/ Shader_new_call
    \/ Shader_set_uniform

SpecShader == InitManager /\ [][NextShader]_vars

\* C23: over the set_uniform calls on a shader the GPU is asked for the
\* location of a name once if the name was used and never otherwise, also
\* for a name that does not exist; every call returns the location of its
\* name; and a missing name is warned about once, at its first lookup
C23_LocationsCachedByName ==
    shader.compiled =>
        /\ \A n \in UniformNames :
              /\ shader.queries[n] = IF shader.calls[n] > 0 THEN 1 ELSE 0
              /\ shader.printed[n] =
                    IF shader.calls[n] > 0 /\ n \notin shader.program THEN 1 ELSE 0
        /\ result.op = "set_uniform" =>
              shader.location = GetUniformLocation(shader.program, result.name)

\* a name that does not exist has been set a second time, a name that exists
\* as well
C23_Witness ==
    /\ shader.compiled
    /\ result.op = "set_uniform"
    /\ result.name \notin shader.program
    /\ shader.calls[result.name] >= 2
    /\ \E n \in shader.program : shader.calls[n] >= 1

-----------------------------------------------------------------------------
(* The point-shadow pass: the slots of the shadow cube map array and the
   pointLightLength uniform (Engine::cube_shadow_depth_pass) *)

\* PointLight::render_shadow_map(nodes, transform, shadow_cube_maps, i): the
\* light renders its depth map into slot i of the array
PointLight_render_shadow_map(light_node, i) == [light |-> light_node, slot |-> i]

\* PointLight::bind_uniforms(shader, i): the uniforms of the light, its slot
\* among them, are bound at index i
PointLight_bind_uniforms(light_node, i) == [light |-> light_node, slot |-> i]

RECURSIVE for_lights(_, _, _)
\* for (i, (light, transform)) in lights.iter().enumerate(): i is j - 1
for_lights(lights, j, acc) ==
    IF j > Len(lights)
    THEN acc
    ELSE LET i == j - 1
             light_node == lights[j][1]
             rendered == Append(acc.rendered,
                                PointLight_render_shadow_map(light_node, i))
         IN  for_lights(lights, j + 1,
                 IF active_shader \in shaders
                 THEN [acc EXCEPT
                         !.rendered = rendered,
                         !.bound = Append(@, PointLight_bind_uniforms(light_node, i)),
                         !.pointLightLength[active_shader] = i + 1]
                 ELSE [acc EXCEPT !.rendered = rendered])

\* Engine::cube_shadow_depth_pass of the next frame
Engine_cube_shadow_depth_pass ==
    /\ cube.frame < MaxFrames
    /\ LET lights == collect_roots("PointLight", values(0), 1, Walk).items
       IN  cube' = for_lights(lights, 1,
                       [cube EXCEPT !.frame = @ + 1,
                                    !.lights = [j \in 1..Len(lights) |-> lights[j][1]],
                                    !.rendered = <<>>,
                                    !.bound = <<>>])
    /\ UNCHANGED api
    /\ UNCHANGED output
    /\ UNCHANGED objects
    /\ UNCHANGED beside_cube
    /\ UNCHANGED scene

\* the kinds of the nodes of the scenes of the point-shadow pass
PointKinds == {"PointLight", "Empty"}

\* between two frames: NodeManager::add on the scene, which replaces the node
\* stored under the name, if any
NodeManager_add_between_frames ==
    /\ Added(PointKinds)
    /\ UNCHANGED <<active_camera_path, shaders, active_shader, pc, frame,
                   should_close, trace, visited, items, camera, draws, output,
                   objects, aux>>

\* between two frames: get_all_mut().remove(name) on the nodes of the scene,
\* which drops the node and the nodes under it
HashMap_remove ==
    /\ cube.frame > 0
    /\ \E n \in {i \in Ids : nodes[i].parent = 0} :
          nodes' = [i \in Ids \ Dropped(n) |-> nodes[i]]
    /\ UNCHANGED api
    /\ UNCHANGED output
    /\ UNCHANGED objects
    /\ UNCHANGED aux
    /\ UNCHANGED <<active_camera_path, shaders, active_shader, pc, frame,
                   should_close, trace, ready_calls, update_calls, visited,
                   items, camera, draws>>


\* scenes of point lights and other nodes, with the shader or without
InitPoint == Loaded(PointKinds, {"default", ""})

NextPoint ==
    \/ Engine_cube_shadow_depth_pass
    \/ NodeManager_add_between_frames
    \/ HashMap_remove

SpecPoint == InitPoint /\ [][NextPoint]_vars

\* the point lights of the tree in the order of their collection
PointLights == collect_roots("PointLight", values(0), 1, Walk).items

\* C24: after the point-shadow pass of a frame whose tree holds k point
\* lights, the lights were rendered into the pairwise distinct slots 0..k-1
\* in the order of their collection, each was bound with the slot it was
\* rendered into, and pointLightLength of the active shader is k.
C24_SlotsAndCountOfPointLights ==
    (cube.frame > 0 /\ cube.lights = [j \in 1..Len(PointLights) |-> PointLights[j][1]]) =>
        LET k == Len(cube.lights)
        IN  /\ Len(cube.rendered) = k
            /\ \A j \in 1..k : cube.rendered[j] = [light |-> cube.lights[j], slot |-> j - 1]
            /\ \A j, l \in 1..k : j # l => cube.rendered[j].slot # cube.rendered[l].slot
            /\ active_shader \in shaders =>
                  /\ cube.bound = cube.rendered
                  /\ cube.pointLightLength[active_shader] = k

-----------------------------------------------------------------------------
(* The draw calls of the main pass *)

\* C25: in a frame where the active camera and the active shader resolve,
\* the main pass issues one draw call for every Model of the tree, at any
\* depth and under parents of any kind, with the fold of the local transforms
\* of its ancestors and its own as world transform, and no draw call for a
\* node that is not a Model.
C25_MainPassDrawsEveryModelOnce ==
    (pc = "render_ui_pass" /\ camera.found /\ active_shader \in shaders) =>
        /\ \A n \in Ids :
              Cardinality({i \in 1..Len(draws) : draws[i][1] = n})
                  = IF nodes[n].kind = "Model" THEN 1 ELSE 0
        /\ \A i \in 1..Len(draws) :
              /\ draws[i][1] \in Ids
              /\ draws[i][2] = World(draws[i][1])

\* a main pass that drew a model two levels down, under a parent that is not
\* a model
C25_Witness ==
    /\ pc = "render_ui_pass"
    /\ camera.found
    /\ active_shader \in shaders
    /\ \E i \in 1..Len(draws) :
          LET n == draws[i][1]
              p == nodes[n].parent
          IN  /\ p # 0
              /\ nodes[p].kind # "Model"
              /\ nodes[p].parent # 0
              /\ draws[i][2] = World(n)

-----------------------------------------------------------------------------
(* The active camera and the active shader of a manager under add and
   add_shader *)

\* the names a node is added under: a &str, the empty one (0) included
AnyNames == {0} \cup Names

\* the names a shader is added under: a &str, the empty one included
ShaderNames == {"", "default", "toon"}

\* a call of NodeManager::add, recorded when it adds a Camera3D
Manager_add ==
    /\ AddedAs(AnyNames, ApiKinds)
    /\ adds' = [adds EXCEPT !.cameras = IF result'.variant = "Camera3D"
                                        THEN Append(@, result'.name)
                                        ELSE @]
    /\ UNCHANGED <<active_camera_path, shaders, active_shader, pc, frame,
                   should_close, trace, visited, items, camera, draws, output,
                   objects, beside_adds>>

\* a call of NodeManager::add_shader
Manager_add_shader ==
    /\ Len(adds.shaders) < MaxAdds
    /\ \E name \in ShaderNames :
          LET after == add_shader(name)
          IN  /\ shaders' = after.shaders
              /\ active_shader' = after.active_shader
              /\ adds' = [adds EXCEPT !.shaders = Append(@, name)]
              /\ result' = [op |-> "add_shader", name |-> name,
                            variant |-> "Shader", outcome |-> "Ok",
                            value |-> 0, before |-> Manager]
    /\ UNCHANGED <<nodes, active_camera_path, pc, frame, should_close, trace,
                   ready_calls, update_calls, visited, items, camera, draws,
                   output, objects, beside_adds, created, active_camera,
                   inserted>>

NextActive ==
    \/ Manager_add
    \/ Manager_add_shader

SpecActive == InitManager /\ [][NextActive]_vars

\* C26: the active camera is the first Camera3D that was added, whatever was
\* added after it, and is empty while no Camera3D was added; the active
\* shader is the first shader that was added, whatever was added after it.
C26_FirstAddedStaysActive ==
    /\ active_camera = IF adds.cameras = <<>> THEN 0 ELSE adds.cameras[1]
    /\ active_shader = IF adds.shaders = <<>> THEN "" ELSE adds.shaders[1]

\* C27: a non-empty active_camera names a node of the manager that is a
\* Camera3D, and a non-empty active_shader names a key of the shaders map.
C27_ActiveNamesArePresent ==
    /\ active_camera # 0 =>
          \E n \in Ids : /\ nodes[n].parent = 0
                         /\ nodes[n].name = active_camera
                         /\ nodes[n].kind = "Camera3D"
    /\ active_shader # "" => active_shader \in shaders

-----------------------------------------------------------------------------
(* The directional-shadow pass: the layers of the depth map array
   (Engine::shadow_depth_pass) *)

\* DirectionalLight::render_shadow_map(root_nodes, shadow_map, index, ..) of a
\* light of num_cascades cascades: shadow_index and light.index are index,
\* light.cascadeDepth is num_cascades
DirectionalLight_render_shadow_map(light_node, index, num_cascades) ==
    [light |-> light_node, index |-> index, num_cascades |-> num_cascades]

RECURSIVE for_directional_lights(_, _, _, _, _)
\* the loop of shadow_depth_pass advancing offset by one for each light
for_directional_lights_by_one(lights, num_cascades, j, offset, acc) ==
    IF j > Len(lights)
    THEN acc
    ELSE for_directional_lights(lights, num_cascades, j + 1, offset + 1,
             Append(acc, DirectionalLight_render_shadow_map(
                             lights[j][1], offset, num_cascades[j])))

\* for (i, (light, _node_transform)) in lights.iter().enumerate(), from the
\* j-th light: render_shadow_map at offset, then offset += num_cascades
for_directional_lights(lights, num_cascades, j, offset, acc) ==
    IF j > Len(lights)
    THEN acc
    ELSE for_directional_lights(lights, num_cascades, j + 1,
                                offset + num_cascades[j],
             Append(acc, DirectionalLight_render_shadow_map(
                             lights[j][1], offset, num_cascades[j])))

\* Engine::shadow_depth_pass of the next frame, on lights of any numbers of
\* cascades
Engine_shadow_depth_pass ==
    /\ layers.frame < MaxFrames
    /\ LET lights == collect_roots("DirectionalLight", values(0), 1, Walk).items
           resolved == traverse_camera_path(active_camera_path)
       IN  \E num_cascades \in [1..Len(lights) -> 0..MaxCascades] :
              layers' = [frame |-> layers.frame + 1,
                         ran |-> resolved.found,
                         ranges |-> IF resolved.found
                                    THEN for_directional_lights(lights, num_cascades,
                                                                1, 0, <<>>)
                                    ELSE <<>>]
    /\ UNCHANGED api
    /\ UNCHANGED output
    /\ UNCHANGED objects
    /\ UNCHANGED beside_layers
    /\ UNCHANGED scene

\* scenes of directional lights and cameras
InitLayers == Loaded({"DirectionalLight", "Camera3D"}, {"default"})

NextLayers == Engine_shadow_depth_pass

SpecLayers == InitLayers /\ [][NextLayers]_vars

RECURSIVE CascadesBefore(_)
\* the sum of the cascade counts of the lights processed before the j-th
CascadesBefore(j) ==
    IF j = 1 THEN 0 ELSE CascadesBefore(j - 1) + layers.ranges[j - 1].num_cascades

\* the layers [index, index + num_cascades) of the j-th light of the pass
Layers(j) ==
    layers.ranges[j].index ..
        (layers.ranges[j].index + layers.ranges[j].num_cascades - 1)

\* C28: in a directional-shadow pass every light of the tree is given, in
\* collection order, the starting layer equal to the sum of the cascade
\* counts of the lights before it; the layer ranges of distinct lights do not
\* overlap; the first light starts at 0 in every frame.
C28_LayersByCascadeCounts ==
    layers.ran =>
        LET lights == collect_roots("DirectionalLight", values(0), 1, Walk).items
        IN  /\ Len(layers.ranges) = Len(lights)
            /\ \A j \in 1..Len(layers.ranges) :
                  /\ layers.ranges[j].light = lights[j][1]
                  /\ layers.ranges[j].index = CascadesBefore(j)
            /\ \A j, l \in 1..Len(layers.ranges) :
                  j # l => Layers(j) \cap Layers(l) = {}
            /\ layers.ranges # <<>> => layers.ranges[1].index = 0

\* the pass of the second frame gave a light of two cascades and the light
\* after it their layers
C28_Witness ==
    /\ layers.ran
    /\ layers.frame = 2
    /\ Len(layers.ranges) >= 2
    /\ layers.ranges[1].num_cascades = 2
    /\ layers.ranges[2].num_cascades = 1
    /\ layers.ranges[2].index = 2

-----------------------------------------------------------------------------
(* The callback slots of a scripted node (Model, Camera3D): ready, behavior,
   define_ready, define_behavior *)

\* deepest nesting of ready / behavior calls followed
MaxDepth == 2

\* the two callback slots of a node: ready_callback and behavior_callback
Slots == {"ready", "behavior"}

\* the closures registered: two that differ
Closures == {"f", "g"}

\* the slots whose callback is running: a call of it is on the stack
Running == {callbacks.stack[i].slot : i \in 1..Len(callbacks.stack)}

\* ready() / behavior(context) called on the node, by the manager (empty
\* stack) or by a callback that is running, which holds &mut Self: the
\* callback is taken out of its slot and entered, if there is one
Node_call ==
    /\ Len(callbacks.stack) < MaxDepth
    /\ \E k \in Slots :
          LET callback == callbacks.slot[k]
              call == [op |-> "call", slot |-> k, nested |-> k \in Running,
                       entered |-> callback # "none"]
          IN  IF callback # "none"
              THEN callbacks' = [slot |-> [callbacks.slot EXCEPT ![k] = "none"],
                                 stack |-> Append(callbacks.stack,
                                                  [slot |-> k, callback |-> callback,
                                                   before |-> callback]),
                                 last |-> call]
              ELSE callbacks' = [callbacks EXCEPT !.last = call]
    /\ UNCHANGED <<scene, output, objects, api, beside_callbacks>>

\* define_ready(closure) / define_behavior(closure) called on the node, by
\* its owner or by a callback that is running
Node_define ==
    /\ \E k \in Slots, closure \in Closures :
          callbacks' = [callbacks EXCEPT
                           !.slot[k] = closure,
                           !.last = [op |-> "define", slot |-> k,
                                     nested |-> k \in Running]]
    /\ UNCHANGED <<scene, output, objects, api, beside_callbacks>>

\* the callback that was entered last returns: it is put back into its slot
Node_return ==
    /\ callbacks.stack # <<>>
    /\ LET top == callbacks.stack[Len(callbacks.stack)]
       IN  callbacks' = [slot |-> [callbacks.slot EXCEPT ![top.slot] = top.callback],
                         stack |-> SubSeq(callbacks.stack, 1, Len(callbacks.stack) - 1),
                         last |-> [op |-> "return", slot |-> top.slot,
                                   before |-> top.before]]
    /\ UNCHANGED <<scene, output, objects, api, beside_callbacks>>

NextCallbacks ==
    \/ Node_call
    \/ Node_define
    \/ Node_return

SpecCallbacks == InitManager /\ [][NextCallbacks]_vars

\* C29: while a callback of a node runs its slot is empty and a nested call
\* of ready() / behavior() on the node enters nothing; when the call has
\* returned the slot holds the callback it held before the call, also when
\* the callback registered another one.
C29_CallbackNotReentered ==
    /\ \A k \in Running : callbacks.slot[k] = "none"
    /\ (callbacks.last.op = "call" /\ callbacks.last.nested) => ~callbacks.last.entered
    /\ callbacks.last.op = "return" =>
          callbacks.slot[callbacks.last.slot] = callbacks.last.before

-----------------------------------------------------------------------------
(* The direction the shadow pass of a directional light uses *)

\* the direction read by get_vps (projection_offset) and bound by
\* render_shadow_map as light.direction: the field `direction`
shadow_direction(l) == l.direction

\* C30: after DirectionalLight::new and after every set_direction the
\* direction the shadow pass uses is the normalized direction given to that
\* call, and it is the forward vector (0, 0, 1) turned by the rotation of the
\* light's transform.
C30_ShadowDirectionIsLatest ==
    (light.constructed /\ result.op \in {"new", "set_direction"}) =>
        /\ SameRay(shadow_direction(light), result.value)
        /\ SameRay(shadow_direction(light),
                   quat_rotate_vec3(light.rotation, reference))

=============================================================================
